---------------------------- MODULE Spec2Model ----------------------------
(***************************************************************************)
(* A model of printfq (src/printfq.c): the UTF-8 code-point source         *)
(* (getUtf8CodePoint / ungetUtf8CodePoint), the UTF-8 escaping engine and  *)
(* the ASCII escaping engine of main(), the option loop of main() and the  *)
(* parent branch that forwards command-line arguments over a pipe.         *)
(*                                                                         *)
(* Bytes and code points are integers; stdout is the sequence of bytes     *)
(* written so far.  C arrays are 1-based sequences here: getUtf8Buff[k+1]  *)
(* is the C element getUtf8Buff[k].                                        *)
(*                                                                         *)
(* The wide-character engine (a locale that is neither UTF-8 nor ASCII,    *)
(* lines 416-603) is not modelled.                                         *)
(***************************************************************************)
EXTENDS Integers, Sequences, FiniteSets, TLC

VARIABLES
    input,                 \* the bytes stdin will deliver (fixed per run)
    pos,                   \* number of bytes of input already read from stdin
    getUtf8Buff,           \* int32_t getUtf8Buff[4]          (line 626)
    getUtf8BuffLength,     \* unsigned getUtf8BuffLength      (line 629)
    bytesInCodePoint,      \* unsigned bytesInCodePoint       (line 620)
    cbuff,                 \* unsigned char cbuff[4]          (line 623)
    c,                     \* the engine's current code point / byte
    isPrintable,           \* unsigned isPrintable
    out,                   \* bytes handed to stdout so far (see StdoutPutFails)
    pc,                    \* position of main() in its control flow
    locale,                \* nl_langinfo(CODESET)
    disableCQuoting,       \* -m
    useUnicodeEscapes,     \* -u
    ansiEscapesLimit,      \* 14, or sizeof(ansiEscapes) with -u
    iswprintFn,            \* iswprint, iswprintExt (-i) or iswNotBlank (-e)
    ignoreNullInput,       \* -n
    nullTerminatedOutput,  \* -z / -f
    flushArguments,        \* -f
    delivered,             \* history: raw bytes of the units consumed so far
    peeked,                \* history: a lookahead (get + unget) has been done
    units,                 \* history: units of the current record, in order
    tokStart,              \* history: Len(out) where the current token began
    lastEsc,               \* history: what the last quoted-run step emitted
    flushedLen,            \* number of bytes of out that have left the stdout buffer
    stdoutBroken,          \* environment: every write(2) to stdout fails
    optsLeft,              \* option letters getopt_long has not returned yet
    optsDone,              \* history: option letters getopt_long has returned
    argv,                  \* the non-option arguments (line 279), <<>> when none
    parentPc,              \* position of the parent branch, lines 286-319
    argIdx,                \* number of arguments the parent has handed to the pipe
    stream,                \* FILE * stream of the parent: its buffer (line 293)
                           \* and its error indicator
    piped,                 \* bytes the parent has written to the pipe, in order
    pipeOpen,              \* the parent holds the write end streamPipe[1]
    readEnd,               \* the parent holds the read end streamPipe[0]
    childStatus,           \* the child: none, running, or how it ended
    childWrite,            \* the child holds the write end streamPipe[1]
    childStdin,            \* the child's standard input is the pipe's read end
    exitCode               \* the value main() of the parent returned

vars == <<input, pos, getUtf8Buff, getUtf8BuffLength, bytesInCodePoint, cbuff,
          c, isPrintable, out, pc, locale, disableCQuoting, useUnicodeEscapes,
          ansiEscapesLimit, iswprintFn, ignoreNullInput, nullTerminatedOutput,
          flushArguments, delivered, peeked, units, tokStart, lastEsc,
          flushedLen, stdoutBroken, optsLeft, optsDone, argv, parentPc, argIdx, stream, piped,
          pipeOpen, readEnd, childStatus, childWrite, childStdin, exitCode>>

decoderVars == <<pos, getUtf8Buff, getUtf8BuffLength, bytesInCodePoint, cbuff>>
pipeVars == <<parentPc, argIdx, stream, piped, pipeOpen, readEnd, childStatus,
              childWrite, childStdin>>
procVars == <<optsLeft, optsDone, argv, pipeVars, exitCode>>
engineVars == <<input, decoderVars, c, isPrintable, out, delivered, peeked, units,
                tokStart, lastEsc, flushedLen, stdoutBroken>>
stdoutVars == <<flushedLen, stdoutBroken>>
optionVars == <<locale, disableCQuoting, useUnicodeEscapes, ansiEscapesLimit,
                iswprintFn, ignoreNullInput, nullTerminatedOutput, flushArguments>>

-----------------------------------------------------------------------------
(* Bounds of the model *)

\* longest input of the decoder harness, in bytes
MaxDecLen == 4
\* longest input of the decoder harness over the smaller alphabet LongBytes
MaxLongLen == 6
\* longest input of the engines, in input units (see Units)
MaxUnits == 3

-----------------------------------------------------------------------------
(* C helpers *)

\* <stdio.h> EOF, as returned by getc_unlocked
EOF == -1

\* x & m for a mask m >= 0; floor division gives two's complement for x = EOF
RECURSIVE BitAnd(_, _)
BitAnd(x, m) ==
    IF m = 0 THEN 0
    ELSE (x % 2) * (m % 2) + 2 * BitAnd(x \div 2, m \div 2)

\* all sequences over S of length at most n
RECURSIVE SeqsUpTo(_, _)
SeqsUpTo(S, n) ==
    IF n = 0 THEN {<<>>}
    ELSE LET shorter == SeqsUpTo(S, n - 1)
         IN  shorter \cup {Append(s, x) : s \in {t \in shorter : Len(t) = n - 1}, x \in S}

\* concatenation of a sequence of sequences
RECURSIVE Flatten(_)
Flatten(ss) == IF ss = <<>> THEN <<>> ELSE Head(ss) \o Flatten(Tail(ss))

-----------------------------------------------------------------------------
(* stdin *)

\* getc_unlocked(stdin) with p bytes already read: the byte, or EOF
Getc(p) == IF p < Len(input) THEN input[p + 1] ELSE EOF
\* the read position after that getc
Advance(p) == IF p < Len(input) THEN p + 1 ELSE p

-----------------------------------------------------------------------------
(* The UTF-8 code-point source.  A decoder state is a record of the four   *)
(* variables of main() the two nested functions share, the stdin position, *)
(* and rc, the value the last getUtf8CodePoint call returned.              *)

DecoderState ==
    [pos |-> pos, getUtf8Buff |-> getUtf8Buff, getUtf8BuffLength |-> getUtf8BuffLength,
     bytesInCodePoint |-> bytesInCodePoint, cbuff |-> cbuff, rc |-> c]

\* getUtf8Buff[k-1] = getc_unlocked(stdin), done only under the code's condition
ReadInto(s, k, cond) ==
    IF cond
    THEN [s EXCEPT !.getUtf8Buff[k] = Getc(s.pos), !.pos = Advance(s.pos)]
    ELSE s

\* memmove(buf + to, buf + from, sizeof(int32_t) * n) on a 4-element array
MemMove(buf, to, from, n) ==
    [i \in 1..4 |->
        IF i - 1 >= to /\ i - 1 < to + n THEN buf[(i - 1 - to) + from + 1] ELSE buf[i]]

\* (getUtf8Buff[k-1] & 0xC0) == 0x80
IsContinuation(b) == BitAnd(b, 192) = 128

\* lines 654-657
Combine4(b) ==
    BitAnd(b[1], 7) * 262144 + BitAnd(b[2], 63) * 4096
        + BitAnd(b[3], 63) * 64 + BitAnd(b[4], 63)
\* lines 679-681
Combine3(b) == BitAnd(b[1], 15) * 4096 + BitAnd(b[2], 63) * 64 + BitAnd(b[3], 63)
\* line 702
Combine2(b) == BitAnd(b[1], 31) * 64 + BitAnd(b[2], 63)

\* lines 659-661: the accepted range of a 4-byte value
Valid4(rc) == 65535 < rc /\ 1114112 > rc
\* a variant of Valid3 that forgets the surrogate range
Valid3_SurrogatesAllowed(rc) == 2047 < rc

\* lines 683-685: the accepted range of a 3-byte value
Valid3(rc) == 2047 < rc /\ (55296 > rc \/ 57343 < rc)
\* line 702: the accepted range of a 2-byte value
Valid2(rc) == 127 < rc

\* lines 725-728: return getUtf8Buff[0] alone and shift the queue by one
ReturnFirst(s, bic) ==
    LET len == s.getUtf8BuffLength
        newLen == IF len # 0 THEN len - 1 ELSE 0
    IN  [s EXCEPT !.rc = s.getUtf8Buff[1],
                  !.bytesInCodePoint = bic,
                  !.cbuff = IF bic = 1 THEN [s.cbuff EXCEPT ![1] = s.getUtf8Buff[1]]
                            ELSE s.cbuff,
                  !.getUtf8BuffLength = newLen,
                  !.getUtf8Buff = IF newLen # 0
                                  THEN MemMove(s.getUtf8Buff, 0, 1, newLen)
                                  ELSE s.getUtf8Buff]

\* lines 729-740 (setCbuff3 / setCbuff2 / setCbuff1): return the combined value
\* rc of n bytes, keep the raw bytes in cbuff, shift what is left of the queue
ReturnDecoded(s, n, rc, newLen) ==
    [s EXCEPT !.rc = rc,
              !.bytesInCodePoint = n,
              !.cbuff = [i \in 1..4 |-> IF i <= n THEN s.getUtf8Buff[i] ELSE s.cbuff[i]],
              !.getUtf8BuffLength = newLen,
              !.getUtf8Buff = IF newLen # 0
                              THEN MemMove(s.getUtf8Buff, 0, n, newLen)
                              ELSE s.getUtf8Buff]

\* a variant of AtLeast that does not keep the bytes read past the lead byte
AtLeast_Dropped(s, n) == s

\* lines 695-696 and 712-713: at least n bytes are now in the queue
AtLeast(s, n) ==
    IF n > s.getUtf8BuffLength THEN [s EXCEPT !.getUtf8BuffLength = n] ELSE s

\* lines 647-673: the lead byte has bit 0x10 set
FourByteBranch(s2) ==
    IF BitAnd(s2.getUtf8Buff[1], 8) = 0
    THEN LET s3 == ReadInto(s2, 4, 4 > s2.getUtf8BuffLength)
             rc == Combine4(s3.getUtf8Buff)
         IN  IF IsContinuation(s3.getUtf8Buff[4]) /\ Valid4(rc)
             THEN ReturnDecoded(s3, 4, rc, 0)
             ELSE ReturnFirst([s3 EXCEPT !.getUtf8BuffLength = 4], 0)
    ELSE ReturnFirst(AtLeast(s2, 3), 0)

\* lines 674-694: exactly three bytes are expected
ThreeByteBranch(s2) ==
    LET rc == Combine3(s2.getUtf8Buff)
    IN  IF IsContinuation(s2.getUtf8Buff[3]) /\ Valid3(rc)
        THEN ReturnDecoded(s2, 3, rc, IF s2.getUtf8BuffLength > 3 THEN 1 ELSE 0)
        ELSE ReturnFirst(AtLeast(s2, 3), 0)

\* lines 698-714: exactly two bytes are expected
TwoByteBranch(s1) ==
    LET rc == Combine2(s1.getUtf8Buff)
    IN  IF IsContinuation(s1.getUtf8Buff[2]) /\ Valid2(rc)
        THEN ReturnDecoded(s1, 2, rc,
                 IF 1 < s1.getUtf8BuffLength THEN s1.getUtf8BuffLength - 2 ELSE 0)
        ELSE ReturnFirst(AtLeast(s1, 2), 0)

\* int32_t getUtf8CodePoint(void), lines 630-741
getUtf8CodePoint(s) ==
    LET s0 == ReadInto(s, 1, s.getUtf8BuffLength = 0)
        lead == s0.getUtf8Buff[1]
    IN  IF -1 < lead
        THEN IF BitAnd(lead, 128) # 0
             THEN IF BitAnd(lead, 64) # 0
                  THEN LET s1 == ReadInto(s0, 2, 2 > s0.getUtf8BuffLength)
                       IN  IF BitAnd(lead, 32) # 0
                           THEN LET s2 == ReadInto(s1, 3, 3 > s1.getUtf8BuffLength)
                                IN  IF BitAnd(lead, 16) # 0
                                    THEN FourByteBranch(s2)
                                    ELSE ThreeByteBranch(s2)
                           ELSE TwoByteBranch(s1)
                  ELSE ReturnFirst(s0, 0)
             ELSE ReturnFirst(s0, 1)
        ELSE ReturnFirst(s0, 0)

\* a variant of UngetDecoded without the memmove of line 746
UngetDecoded_NoShift(s) ==
    LET n == s.bytesInCodePoint
    IN  [s EXCEPT !.getUtf8BuffLength = s.getUtf8BuffLength + n,
                  !.getUtf8Buff = [i \in 1..4 |-> IF i <= n THEN s.cbuff[i]
                                                  ELSE s.getUtf8Buff[i]],
                  !.bytesInCodePoint = 0]

\* lines 745-752: push the raw bytes of a decoded unit back
UngetDecoded(s) ==
    LET n == s.bytesInCodePoint
        len == s.getUtf8BuffLength
        moved == IF len # 0 THEN MemMove(s.getUtf8Buff, n, 0, len) ELSE s.getUtf8Buff
    IN  [s EXCEPT !.getUtf8BuffLength = len + n,
                  !.getUtf8Buff = [i \in 1..4 |-> IF i <= n THEN s.cbuff[i] ELSE moved[i]],
                  !.bytesInCodePoint = 0]

\* a variant of UngetRaw that never makes room: it always stores at index 0
UngetRaw_NoRoom(s, uc) ==
    [s EXCEPT !.getUtf8BuffLength = IF s.getUtf8BuffLength = 0 THEN 1
                                    ELSE s.getUtf8BuffLength,
              !.getUtf8Buff[1] = uc]

\* lines 754-763: push a raw byte, or EOF, back
UngetRaw(s, uc) ==
    LET len == s.getUtf8BuffLength
    IN  IF len = 0
        THEN [s EXCEPT !.getUtf8BuffLength = 1, !.getUtf8Buff[1] = uc]
        ELSE IF 4 > len
        THEN [s EXCEPT !.getUtf8BuffLength = len + 1,
                       !.getUtf8Buff = [MemMove(s.getUtf8Buff, 1, 0, len) EXCEPT ![1] = uc]]
        ELSE [s EXCEPT !.getUtf8Buff[1] = uc]

\* void ungetUtf8CodePoint(int32_t uc), lines 742-764
ungetUtf8CodePoint(s, uc) ==
    IF s.bytesInCodePoint # 0 THEN UngetDecoded(s) ELSE UngetRaw(s, uc)

\* ungetUtf8CodePoint((nextc = getUtf8CodePoint())), lines 804, 816, 827:
\* the decoder state after the lookahead; its rc is nextc
Lookahead(s) ==
    LET g == getUtf8CodePoint(s)
    IN  ungetUtf8CodePoint(g, g.rc)

\* the raw input bytes of the unit a getUtf8CodePoint call left in state g:
\* cbuff[0..bytesInCodePoint-1], or the byte itself when it was not decoded
RawBytes(g) ==
    IF g.bytesInCodePoint # 0 THEN SubSeq(g.cbuff, 1, g.bytesInCodePoint)
    ELSE IF g.rc >= 0 THEN <<g.rc>>
    ELSE <<>>

\* the units <<value, width, raw bytes>> that successive getUtf8CodePoint calls
\* deliver from decoder state s, up to and including the first EOF
RECURSIVE Drain(_)
Drain(s) ==
    LET g == getUtf8CodePoint(s)
    IN  IF g.rc = EOF THEN << <<EOF, 0, <<>> >> >>
        ELSE << <<g.rc, g.bytesInCodePoint, RawBytes(g)>> >> \o Drain(g)

\* the decoder variables take the values of decoder state s
SetDecoder(s) ==
    /\ pos' = s.pos
    /\ getUtf8Buff' = s.getUtf8Buff
    /\ getUtf8BuffLength' = s.getUtf8BuffLength
    /\ bytesInCodePoint' = s.bytesInCodePoint
    /\ cbuff' = s.cbuff

-----------------------------------------------------------------------------
(* Values the variables have before main() reaches the engines *)

\* getUtf8Buff and cbuff are uninitialised automatic arrays; no element is read
\* before it is written, so the model starts them at zero
ZeroArray == [i \in 1..4 |-> 0]

\* what lastEsc holds when the last step emitted nothing inside a quoted run
NoEsc == [kind |-> "none", cp |-> 0, raw |-> <<>>, text |-> <<>>]

\* option values before getopt_long has seen any option (lines 146-152)
DefaultOptions ==
    [locale |-> "UTF-8", disableCQuoting |-> FALSE, useUnicodeEscapes |-> FALSE,
     iswprintFn |-> "iswprint", ignoreNullInput |-> FALSE,
     nullTerminatedOutput |-> FALSE, flushArguments |-> FALSE]

\* the option variables hold configuration o; -u also raises ansiEscapesLimit
\* to sizeof(ansiEscapes) (lines 146, 255-258)
OptionsAre(o) ==
    /\ locale = o.locale
    /\ disableCQuoting = o.disableCQuoting
    /\ useUnicodeEscapes = o.useUnicodeEscapes
    /\ ansiEscapesLimit = (IF o.useUnicodeEscapes THEN 28 ELSE 14)
    /\ iswprintFn = o.iswprintFn
    /\ ignoreNullInput = o.ignoreNullInput
    /\ nullTerminatedOutput = o.nullTerminatedOutput
    /\ flushArguments = o.flushArguments

\* the process has no child (before the fork, and in the child itself)
NoChild == [kind |-> "none", code |-> 0]

\* the child of the fork has not ended
Running == [kind |-> "running", code |-> 0]

\* a stdio stream with an empty buffer and no error
NoStream == [buf |-> <<>>, err |-> FALSE]

\* the variables of the option loop and of the fork before the fork: opts are
\* the option letters still to parse, args the non-option arguments, ppc the
\* position of the parent branch ("none": not in the parent branch, "child":
\* this process is the child and reads the pipe)
ProcIs(opts, args, ppc) ==
    /\ optsLeft = opts
    /\ optsDone = <<>>
    /\ argv = args
    /\ parentPc = ppc
    /\ argIdx = 0
    /\ stream = NoStream
    /\ piped = <<>>
    /\ pipeOpen = FALSE
    /\ readEnd = FALSE
    /\ childStatus = NoChild
    /\ childWrite = FALSE
    /\ childStdin = (ppc = "child")
    /\ exitCode = 0

\* the engine's variables at line 325, before any input is read; broken: the
\* values stdoutBroken can have
InitEngineIo(inputs, options, startPc, broken) ==
    /\ input \in inputs
    /\ pos = 0
    /\ getUtf8Buff = ZeroArray
    /\ getUtf8BuffLength = 0
    /\ bytesInCodePoint = 0
    /\ cbuff = ZeroArray
    /\ c = 0
    /\ isPrintable = FALSE
    /\ out = <<>>
    /\ pc = startPc
    /\ \E o \in options : OptionsAre(o)
    /\ delivered = <<>>
    /\ peeked = FALSE
    /\ units = <<>>
    /\ tokStart = 0
    /\ lastEsc = NoEsc
    /\ flushedLen = 0
    /\ stdoutBroken \in broken

\* the engine's variables at line 325 when stdout takes what is written
InitEngine(inputs, options, startPc) ==
    InitEngineIo(inputs, options, startPc, {FALSE})

\* the state of main() at line 325 of a process that reads its own stdin
InitWith(inputs, options, startPc) ==
    /\ InitEngine(inputs, options, startPc)
    /\ ProcIs(<<>>, <<>>, "none")

-----------------------------------------------------------------------------
(* The code-point source on its own: a caller that only reads units, with  *)
(* lookaheads (one get directly followed by the unget of its result) in    *)
(* between, until end of input is delivered.                               *)

\* bytes of the decoder harness: NUL, 'a', continuation bytes 0x80 0x90 0xA0,
\* 2-byte leads 0xC0 0xC3, 3-byte leads 0xE0 0xED, 4-byte leads 0xF0 0xF4
DecoderBytes == {0, 97, 128, 144, 160, 192, 195, 224, 237, 240, 244}

\* bytes of the longer inputs, which fill the 4-entry queue past a failed lead
\* byte: 'a', a continuation byte, a 3-byte lead and a 4-byte lead
LongBytes == {97, 128, 224, 240}

DecoderInputs == SeqsUpTo(DecoderBytes, MaxDecLen) \cup SeqsUpTo(LongBytes, MaxLongLen)

InitDecoder == InitWith(DecoderInputs, {DefaultOptions}, "decoder")

\* c = getUtf8CodePoint(), consumed by the caller
DecoderGet ==
    /\ pc = "decoder"
    /\ LET g == getUtf8CodePoint(DecoderState)
       IN  /\ SetDecoder(g)
           /\ c' = g.rc
           /\ delivered' = delivered \o RawBytes(g)
           /\ pc' = IF g.rc = EOF THEN "drained" ELSE "decoder"
    /\ UNCHANGED <<input, isPrintable, out, optionVars, procVars, stdoutVars, peeked, units, tokStart, lastEsc>>

\* ungetUtf8CodePoint((nextc = getUtf8CodePoint())): nothing is consumed
DecoderPeek ==
    /\ pc = "decoder"
    /\ SetDecoder(Lookahead(DecoderState))
    /\ peeked' = TRUE
    /\ UNCHANGED <<input, c, isPrintable, out, pc, optionVars, procVars, stdoutVars, delivered, units,
                   tokStart, lastEsc>>

NextDecoder == DecoderGet \/ DecoderPeek

SpecDecoder == InitDecoder /\ [][NextDecoder]_vars

-----------------------------------------------------------------------------
(* Tables and classifiers of main() *)

\* static const char shControlChars[], lines 115-133: the indexes holding 1
shControlChars ==
    {9, 10, 32, 33, 34, 35, 36, 38, 39, 40, 41, 42, 44, 59, 60, 62, 63,
     91, 92, 93, 94, 96, 123, 124, 125}

\* sizeof(shControlChars)
SizeofShControlChars == 128

\* (uint32_t)c < sizeof(shControlChars) && shControlChars[c], lines 344, 777
IsShControlChar(ch) == ch >= 0 /\ ch < SizeofShControlChars /\ ch \in shControlChars

\* static const char ansiEscapes[], lines 136-142: index -> escape letter
\* (a b t n v f r E), 0 elsewhere
ansiEscapes ==
    [i \in 0..27 |->
        CASE i = 7 -> 97 [] i = 8 -> 98 [] i = 9 -> 116 [] i = 10 -> 110
          [] i = 11 -> 118 [] i = 12 -> 102 [] i = 13 -> 114 [] i = 27 -> 69
          [] OTHER -> 0]

\* a variant of HasAnsiEscape that ignores ansiEscapesLimit
HasAnsiEscape_NoLimit(ch) == ch >= 0 /\ ch < 28 /\ ansiEscapes[ch] # 0

\* (uint32_t)c < ansiEscapesLimit && ansiEscapes[c], lines 363, 797
HasAnsiEscape(ch) == ch >= 0 /\ ch < ansiEscapesLimit /\ ansiEscapes[ch] # 0

\* isprint() of the C locale, lines 343, 375
isprint(ch) == ch >= 32 /\ ch <= 126

\* iswprint() of a UTF-8 locale (libc): ASCII graphic characters and space;
\* above them everything from U+00A0 on except the noncharacters U+10FFFE and
\* U+10FFFF.  This agrees with glibc's C.UTF-8 on every code point the inputs
\* of the model decode to.
iswprint(ch) == (ch >= 32 /\ ch <= 126) \/ (ch >= 160 /\ ch < 1114110)

\* iswspace() of a UTF-8 locale (libc) above U+00FF, as the comments of lines
\* 86-94 record it
iswspace(ch) ==
    \/ ch = 5760
    \/ (ch >= 8192 /\ ch <= 8198)
    \/ (ch >= 8200 /\ ch <= 8202)
    \/ ch \in {8232, 8233, 8287, 12288}

\* static int iswprintExt(wint_t c), lines 42-74
iswprintExt(ch) ==
    /\ iswprint(ch)
    /\ 173 # ch
    /\ 847 # ch
    /\ 1564 # ch
    /\ 4447 # ch
    /\ 4448 # ch
    /\ 6068 # ch
    /\ 6069 # ch
    /\ (6155 > ch \/ 6158 < ch)
    /\ (8203 > ch \/ 8207 < ch)
    /\ (8234 > ch \/ 8238 < ch)
    /\ (8288 > ch \/ 8303 < ch)
    /\ (65024 > ch \/ 65039 < ch)
    /\ 65279 # ch
    /\ 65440 # ch
    /\ 65532 # ch
    /\ 119129 # ch
    /\ (119155 > ch \/ 119162 < ch)
    /\ 917505 # ch
    /\ (917536 > ch \/ 917631 < ch)
    /\ (917760 > ch \/ 917999 < ch)

\* static int iswNotBlank(wint_t c), lines 77-97
iswNotBlank(ch) ==
    /\ iswprintExt(ch)
    /\ IF 256 > ch
       THEN 160 # ch
       ELSE ~(iswspace(ch) \/ 8199 = ch \/ 8239 = ch \/ 10240 = ch \/ 12644 = ch)

\* a variant of CallIswprintFn that calls iswprint whatever the options
CallIswprintFn_Default(ch) == iswprint(ch)

\* a variant of CallIswprintFn that takes only ASCII for printable
CallIswprintFn_AsciiOnly(ch) == isprint(ch)

\* iswprintFn((wint_t)c), lines 776, 833: the classifier the options selected
CallIswprintFn(ch) ==
    CASE iswprintFn = "iswprintExt" -> iswprintExt(ch)
      [] iswprintFn = "iswNotBlank" -> iswNotBlank(ch)
      [] OTHER -> iswprint(ch)

\* '7' >= nextc && '0' <= nextc, lines 371, 805
IsOctalDigit(ch) == 55 >= ch /\ 48 <= ch

\* isxdigit() of <ctype.h>
isxdigit(ch) ==
    (ch >= 48 /\ ch <= 57) \/ (ch >= 65 /\ ch <= 70) \/ (ch >= 97 /\ ch <= 102)

\* nextc <= 'f' && isxdigit((wint_t)nextc), lines 817, 828
IsHexDigit(ch) == ch <= 102 /\ isxdigit(ch)

-----------------------------------------------------------------------------
(* printf conversions *)

\* the digits of n >= 0 in the given base, most significant first
RECURSIVE Digits(_, _)
Digits(n, base) ==
    IF n < base THEN <<n>> ELSE Append(Digits(n \div base, base), n % base)

\* the character of one digit; %o and %X print 0-9 and upper-case A-F
DigitChar(d) == IF d < 10 THEN 48 + d ELSE 55 + d

\* zero-padding of a digit sequence to at least prec digits (printf precision)
RECURSIVE ZeroPad(_, _)
ZeroPad(ds, prec) == IF Len(ds) >= prec THEN ds ELSE ZeroPad(<<0>> \o ds, prec)

\* printf("%.<prec>o" / "%.<prec>X", n); prec = 1 is the plain %o / %X
FormatNumber(n, base, prec) ==
    LET ds == ZeroPad(Digits(n, base), prec)
    IN  [i \in 1..Len(ds) |-> DigitChar(ds[i])]

\* printf("\\%.3o", n), lines 366-372, 800-806, 812
Octal3(n) == <<92>> \o FormatNumber(n, 8, 3)
\* printf("\\%o", n), lines 372, 806
OctalShort(n) == <<92>> \o FormatNumber(n, 8, 1)

-----------------------------------------------------------------------------
(* The engines: common parts *)

\* history: the unit the engine is about to emit
Unit(cp, raw) == [cp |-> cp, raw |-> raw]

\* what one step of a quoted run produced: the text printed for one code
\* point, the decoder state after a possible lookahead, and whether the
\* run is left by the break of line 829
Emitted(kind, text, dec, brk) == [kind |-> kind, text |-> text, dec |-> dec, brk |-> brk]

\* lines 357-362 and 786-793: a printable code point inside $'...'
LiteralText(ch, raw) ==
    IF ch = 92 THEN <<92, 92>>
    ELSE IF ch = 39 THEN <<92, 39>>
    ELSE raw

\* printf("\\%c", ansiEscapes[c]), lines 364, 798
NamedEscape(ch) == <<92, ansiEscapes[ch]>>

\* a variant of OctalEscape that never pads
OctalEscape_NeverPadded(ch, wide) == OctalShort(ch)

\* the format chosen at lines 366-372 and 800-806: "\\%.3o" when c is above
\* 077 or the next code point is an octal digit, else "\\%o"
OctalEscape(ch, wide) == IF wide THEN Octal3(ch) ELSE OctalShort(ch)

\* a variant of EmptyToken that writes nothing for an empty record
EmptyToken_Nothing == <<>>

\* fputs_unlocked("''", stdout), lines 392 and 848
EmptyToken == <<39, 39>>

\* a variant of SeparatorFlush that never calls fflush
SeparatorFlush_Never(len, newLen) == len

\* ! flushArguments || EOF != fflush_unlocked(stdout), lines 396 and 852,
\* reached when a NUL separator has been written: the number of bytes that
\* have left the stdout buffer, given len before and newLen bytes written
SeparatorFlush(len, newLen) ==
    IF ~ignoreNullInput /\ nullTerminatedOutput /\ flushArguments /\ ~stdoutBroken
    THEN newLen ELSE len

\* return 0 at line 872: exit() flushes what stdout still buffers
ExitFlush(o) == IF stdoutBroken THEN flushedLen ELSE Len(o)

\* size of the stdout buffer, BUFSIZ at lines 99 and 104, scaled down
StdoutBufSize == 2

\* putc_unlocked(ch, stdout) returns EOF: the buffer is full and cannot be
\* written out.  o are the bytes handed to stdout so far; with stdout broken
\* the buffer took the first StdoutBufSize of them and refused the rest.
StdoutPutFails(o) == stdoutBroken /\ Len(o) - flushedLen >= StdoutBufSize

\* unsigned lc, lines 394-398 and 850-854: the separator was written (and,
\* with -f, flushed), or -n is set; o are the bytes handed to stdout before
SeparatorOk(o) ==
    \/ ignoreNullInput
    \/ /\ ~StdoutPutFails(o)
       /\ (nullTerminatedOutput /\ flushArguments) => ~stdoutBroken

\* a variant of Separator that writes nothing between two records
Separator_Missing == <<>>

\* the separator written between two records, lines 395-397 and 851-853
Separator == IF nullTerminatedOutput THEN <<0>> ELSE <<32>>

\* a variant of SeparatorWritten that ignores ignoreNullInput
SeparatorWritten_Always == Separator

\* unsigned lc = ignoreNullInput || (...putc_unlocked...), lines 394-398 and
\* 850-854: what is written when a NUL of the input is followed by more input
SeparatorWritten == IF ignoreNullInput THEN <<>> ELSE Separator

\* a variant of Terminator that ends the output with a separator when the
\* input ends after a NUL
Terminator_SeparatorAtEof(afterNul) ==
    IF afterNul THEN Separator
    ELSE (IF ignoreNullInput /\ nullTerminatedOutput THEN <<0>> ELSE <<>>)

\* a variant of Terminator that writes the NUL whenever -z or -f is set
Terminator_Always(afterNul) == IF nullTerminatedOutput THEN <<0>> ELSE <<>>

\* a variant of Terminator that writes the NUL only after a NUL of the input
Terminator_OnlyAfterNul(afterNul) ==
    IF afterNul /\ nullTerminatedOutput THEN <<0>> ELSE <<>>

\* lines 403-412 and 860-869: what is written at end of input; afterNul: the
\* byte read before EOF was a NUL
Terminator(afterNul) ==
    IF afterNul
    THEN (IF nullTerminatedOutput THEN <<0>> ELSE <<>>)
    ELSE (IF ignoreNullInput /\ nullTerminatedOutput THEN <<0>> ELSE <<>>)

\* lines 325-333, 416, 604: which engine main() runs
UsesAsciiEngine ==
    \/ (locale = "UTF-8" /\ disableCQuoting)
    \/ locale = "ANSI_X3.4-1968"

SelectEngine ==
    /\ pc = "select"
    /\ pc' = IF UsesAsciiEngine THEN "a_start" ELSE "u_start"
    /\ UNCHANGED <<input, decoderVars, c, isPrintable, out, optionVars, procVars, stdoutVars, delivered,
                   peeked, units, tokStart, lastEsc>>

-----------------------------------------------------------------------------
(* The UTF-8 engine, lines 765-870 *)

\* a variant of IsLeadingTilde without the tilde guard
IsLeadingTilde_Never(ch) == FALSE

\* '~' == c at lines 767 and 855: the first code point of a record is a tilde
IsLeadingTilde(ch) == ch = 126

\* lines 796-807: a code point below 128, or a byte that did not decode
Utf8ByteEscape(s, ch) ==
    IF HasAnsiEscape(ch)
    THEN Emitted("named", NamedEscape(ch), s, FALSE)
    ELSE IF 63 < ch
    THEN Emitted("octal", OctalEscape(ch, TRUE), s, FALSE)
    ELSE LET la == Lookahead(s)
         IN  Emitted("octal", OctalEscape(ch, IsOctalDigit(la.rc)), la, FALSE)

\* lines 811-812: one 3-digit octal escape per raw byte of the code point
RECURSIVE OctalBytes(_)
OctalBytes(raw) ==
    IF raw = <<>> THEN <<>> ELSE Octal3(Head(raw)) \o OctalBytes(Tail(raw))

\* lines 813-819: \u with 4 digits when c is above 0xFFF or a hex digit follows
Utf8SmallUEscape(s, ch) ==
    IF 4095 < ch
    THEN Emitted("u", <<92, 117>> \o FormatNumber(ch, 16, 4), s, FALSE)
    ELSE LET la == Lookahead(s)
         IN  Emitted("u", <<92, 117>> \o FormatNumber(ch, 16,
                              IF IsHexDigit(la.rc) THEN 4 ELSE 1), la, FALSE)

\* lines 820-830: \U with as many digits as needed; leave the quoted run when
\* a hex digit follows
Utf8BigUEscape(s, ch) ==
    LET la == Lookahead(s)
    IN  Emitted("U", <<92, 85>> \o FormatNumber(ch, 16, 1), la, IsHexDigit(la.rc))

\* lines 785-830: the text for code point ch inside $'...'
Utf8EscapeOne(s, ch, printable) ==
    IF printable
    THEN Emitted("literal",
                 LiteralText(ch, IF s.bytesInCodePoint # 0
                                 THEN SubSeq(s.cbuff, 1, s.bytesInCodePoint)
                                 ELSE <<ch>>), s, FALSE)
    ELSE IF 128 > ch \/ s.bytesInCodePoint = 0
    THEN Utf8ByteEscape(s, ch)
    ELSE IF ~useUnicodeEscapes
    THEN Emitted("octalbytes", OctalBytes(SubSeq(s.cbuff, 1, s.bytesInCodePoint)), s, FALSE)
    ELSE IF 65535 >= ch
    THEN Utf8SmallUEscape(s, ch)
    ELSE Utf8BigUEscape(s, ch)

\* lines 765-770: the first read; a leading '~' goes straight to utf8StartEscape
Utf8Begin ==
    /\ pc = "u_start"
    /\ LET g == getUtf8CodePoint(DecoderState)
       IN  /\ SetDecoder(g)
           /\ c' = g.rc
           /\ IF IsLeadingTilde(g.rc)
              THEN isPrintable' = TRUE /\ pc' = "u_esc"
              ELSE isPrintable' = isPrintable /\ pc' = "u_outer"
    /\ UNCHANGED <<input, out, optionVars, procVars, stdoutVars, delivered, peeked, units, tokStart, lastEsc>>

\* lines 771-772 and 847-848: a record with code points, or the empty record
Utf8Record ==
    /\ pc = "u_outer"
    /\ IF 0 < c
       THEN out' = out /\ pc' = "u_inner"
       ELSE out' = out \o EmptyToken /\ pc' = "u_delim"
    /\ lastEsc' = NoEsc
    /\ UNCHANGED <<input, decoderVars, c, isPrintable, optionVars, procVars, stdoutVars, delivered, peeked,
                   units, tokStart>>

\* lines 773-780 and 841-845: classify c outside a quoted run; write it as it
\* is, write \' for a quote, or go to utf8StartEscape
Utf8Classify ==
    /\ pc = "u_inner"
    /\ LET s == DecoderState
           printable == bytesInCodePoint # 0 /\ CallIswprintFn(c)
           g == getUtf8CodePoint(s)
           text == IF ~printable \/ IsShControlChar(c)
                   THEN <<92, 39>>
                   ELSE SubSeq(cbuff, 1, bytesInCodePoint)
       IN  /\ isPrintable' = printable
           /\ IF (~printable \/ IsShControlChar(c)) /\ c # 39
              THEN /\ pc' = "u_esc"
                   /\ UNCHANGED <<decoderVars, c, out, units>>
              ELSE /\ out' = out \o text
                   /\ units' = Append(units, Unit(c, RawBytes(s)))
                   /\ SetDecoder(g)
                   /\ c' = g.rc
                   /\ pc' = IF 0 < g.rc THEN "u_inner" ELSE "u_delim"
    /\ lastEsc' = NoEsc
    /\ UNCHANGED <<input, optionVars, procVars, stdoutVars, delivered, peeked, tokStart>>

\* lines 782-783, label utf8StartEscape: open the quoted run
Utf8OpenQuote ==
    /\ pc = "u_esc"
    /\ out' = out \o <<36, 39>>
    /\ pc' = "u_ansi"
    /\ lastEsc' = NoEsc
    /\ UNCHANGED <<input, decoderVars, c, isPrintable, optionVars, procVars, stdoutVars, delivered, peeked,
                   units, tokStart>>

\* lines 784-839: one pass of the loop of the quoted run: print c, read the
\* next code point, and close the run when it is NUL or EOF or when line 829
\* left the loop
Utf8Escape ==
    /\ pc = "u_ansi"
    /\ \E e \in {Utf8EscapeOne(DecoderState, c, isPrintable)} :
       \E g \in {getUtf8CodePoint(e.dec)} :
       LET s == DecoderState
       IN  /\ SetDecoder(g)
           /\ c' = g.rc
           /\ units' = Append(units, Unit(c, RawBytes(s)))
           /\ lastEsc' = [kind |-> e.kind, cp |-> c, raw |-> RawBytes(s), text |-> e.text]
           /\ IF e.brk
              THEN /\ out' = out \o e.text \o <<39>>
                   /\ isPrintable' = isPrintable
                   /\ pc' = IF 0 < g.rc THEN "u_inner" ELSE "u_delim"
              ELSE IF 0 < g.rc
              THEN /\ out' = out \o e.text
                   /\ isPrintable' = (g.bytesInCodePoint # 0 /\ CallIswprintFn(g.rc))
                   /\ pc' = "u_ansi"
              ELSE /\ out' = out \o e.text \o <<39>>
                   /\ isPrintable' = isPrintable
                   /\ pc' = "u_delim"
    /\ UNCHANGED <<input, optionVars, procVars, stdoutVars, delivered, peeked, tokStart>>

\* lines 849-870: the condition of the outer loop: after a NUL read the next
\* code point and write the separator, at end of input write the terminator
Utf8Delim ==
    /\ pc = "u_delim"
    /\ IF 0 = c
       THEN LET g == getUtf8CodePoint(DecoderState)
                sep == SeparatorWritten
            IN  /\ SetDecoder(g)
                /\ c' = g.rc
                /\ IF EOF # g.rc
                   THEN /\ out' = out \o sep
                        /\ IF ~SeparatorOk(out)
                           THEN isPrintable' = isPrintable /\ pc' = "done"
                           ELSE IF IsLeadingTilde(g.rc)
                           THEN isPrintable' = TRUE /\ pc' = "u_esc"
                           ELSE isPrintable' = isPrintable /\ pc' = "u_outer"
                        /\ flushedLen' = (IF SeparatorOk(out)
                                          THEN SeparatorFlush(flushedLen, Len(out \o sep))
                                          ELSE ExitFlush(out \o sep))
                        /\ units' = (IF ignoreNullInput THEN units ELSE <<>>)
                        /\ tokStart' = (IF ignoreNullInput THEN tokStart ELSE Len(out \o sep))
                   ELSE /\ out' = out \o Terminator(TRUE)
                        /\ flushedLen' = ExitFlush(out')
                        /\ pc' = "done"
                        /\ UNCHANGED <<isPrintable, units, tokStart>>
       ELSE /\ out' = out \o Terminator(FALSE)
            /\ flushedLen' = ExitFlush(out')
            /\ pc' = "done"
            /\ UNCHANGED <<decoderVars, c, isPrintable, units, tokStart>>
    /\ lastEsc' = NoEsc
    /\ exitCode' = (IF pc' = "done" THEN 0 ELSE exitCode)
    /\ UNCHANGED <<input, optionVars, optsLeft, optsDone, argv, pipeVars, stdoutBroken,
                   delivered, peeked>>

-----------------------------------------------------------------------------
(* The ASCII engine, lines 334-414 *)

\* ungetc(ch, stdin) with p bytes read: EOF is not pushed back
Ungetc(p, ch) == IF ch = EOF THEN p ELSE p - 1

\* lines 363-373: a byte that is not printable, inside $'...'; the lookahead
\* ungetc((nextc = getc_unlocked(stdin)), stdin) leaves the read position p
AsciiByteEscape(p, ch) ==
    IF HasAnsiEscape(ch)
    THEN Emitted("named", NamedEscape(ch), p, FALSE)
    ELSE IF 63 < ch
    THEN Emitted("octal", OctalEscape(ch, TRUE), p, FALSE)
    ELSE LET nextc == Getc(p)
         IN  Emitted("octal", OctalEscape(ch, IsOctalDigit(nextc)),
                     Ungetc(Advance(p), nextc), FALSE)

\* lines 356-373: the text for byte ch inside $'...'
AsciiEscapeOne(p, ch, printable) ==
    IF printable
    THEN Emitted("literal", LiteralText(ch, <<ch>>), p, FALSE)
    ELSE AsciiByteEscape(p, ch)

\* a variant of AsciiQuoteOpen that opens a $'...' run in minimal mode too
AsciiQuoteOpen_AlwaysAnsi == <<36, 39>>

\* lines 347-348 and 354: what opens the quoted run: ' in minimal mode, else $'
AsciiQuoteOpen == IF disableCQuoting THEN <<39>> ELSE <<36, 39>>

\* lines 334-339: the first read; a leading '~' goes to narrowCharStartEscape
AsciiBegin ==
    /\ pc = "a_start"
    /\ c' = Getc(pos)
    /\ pos' = Advance(pos)
    /\ IF IsLeadingTilde(Getc(pos))
       THEN isPrintable' = TRUE /\ pc' = "a_esc"
       ELSE isPrintable' = isPrintable /\ pc' = "a_outer"
    /\ UNCHANGED <<input, getUtf8Buff, getUtf8BuffLength, bytesInCodePoint, cbuff, out,
                   optionVars, procVars, stdoutVars, delivered, peeked, units, tokStart, lastEsc>>

\* lines 340-341 and 391-392: a record with bytes, or the empty record
AsciiRecord ==
    /\ pc = "a_outer"
    /\ IF 0 < c
       THEN out' = out /\ pc' = "a_inner"
       ELSE out' = out \o EmptyToken /\ pc' = "a_delim"
    /\ lastEsc' = NoEsc
    /\ UNCHANGED <<input, decoderVars, c, isPrintable, optionVars, procVars, stdoutVars, delivered, peeked,
                   units, tokStart>>

\* lines 342-344 and 386-389: classify c outside a quoted run; write it as it
\* is or go to narrowCharStartEscape
AsciiClassify ==
    /\ pc = "a_inner"
    /\ LET printable == disableCQuoting \/ isprint(c)
       IN  /\ isPrintable' = printable
           /\ IF IsShControlChar(c) \/ ~printable
              THEN /\ pc' = "a_esc"
                   /\ UNCHANGED <<pos, c, out, units>>
              ELSE /\ out' = Append(out, c)
                   /\ units' = Append(units, Unit(c, <<c>>))
                   /\ c' = Getc(pos)
                   /\ pos' = Advance(pos)
                   /\ pc' = IF 0 < Getc(pos) THEN "a_inner" ELSE "a_delim"
    /\ lastEsc' = NoEsc
    /\ UNCHANGED <<input, getUtf8Buff, getUtf8BuffLength, bytesInCodePoint, cbuff,
                   optionVars, procVars, stdoutVars, delivered, peeked, tokStart>>

\* lines 345-354 and 382, label narrowCharStartEscape: write \' for a quote,
\* else open a '...' run (minimal) or a $'...' run
AsciiOpenQuote ==
    /\ pc = "a_esc"
    /\ IF 39 = c
       THEN /\ out' = out \o <<92, 39>>
            /\ units' = Append(units, Unit(c, <<c>>))
            /\ c' = Getc(pos)
            /\ pos' = Advance(pos)
            /\ pc' = IF 0 < Getc(pos) THEN "a_inner" ELSE "a_delim"
       ELSE /\ out' = out \o AsciiQuoteOpen
            /\ pc' = (IF disableCQuoting THEN "a_raw" ELSE "a_ansi")
            /\ UNCHANGED <<pos, c, units>>
    /\ lastEsc' = NoEsc
    /\ UNCHANGED <<input, getUtf8Buff, getUtf8BuffLength, bytesInCodePoint, cbuff,
                   isPrintable, optionVars, procVars, stdoutVars, delivered, peeked, tokStart>>

\* lines 349-351 and 379-389: one pass of the loop of the '...' run: copy c,
\* read the next byte; a quote, NUL or EOF closes the run, and a quote is then
\* written as \' and the byte after it is read
AsciiRaw ==
    /\ pc = "a_raw"
    /\ LET nextc == Getc(pos)
           p1 == Advance(pos)
       IN  IF 0 < nextc /\ 39 # nextc
           THEN /\ out' = Append(out, c)
                /\ units' = Append(units, Unit(c, <<c>>))
                /\ c' = nextc
                /\ pos' = p1
                /\ pc' = "a_raw"
           ELSE IF 39 = nextc
           THEN /\ out' = out \o <<c, 39, 92, 39>>
                /\ units' = units \o <<Unit(c, <<c>>), Unit(39, <<39>>)>>
                /\ c' = Getc(p1)
                /\ pos' = Advance(p1)
                /\ pc' = IF 0 < Getc(p1) THEN "a_inner" ELSE "a_delim"
           ELSE /\ out' = out \o <<c, 39>>
                /\ units' = Append(units, Unit(c, <<c>>))
                /\ c' = nextc
                /\ pos' = p1
                /\ pc' = "a_delim"
    /\ lastEsc' = NoEsc
    /\ UNCHANGED <<input, getUtf8Buff, getUtf8BuffLength, bytesInCodePoint, cbuff,
                   isPrintable, optionVars, procVars, stdoutVars, delivered, peeked, tokStart>>

\* lines 354-384: one pass of the loop of the $'...' run: print c, read the
\* next byte; NUL or EOF closes the run
AsciiEscape ==
    /\ pc = "a_ansi"
    /\ LET e == AsciiEscapeOne(pos, c, isPrintable)
           nextc == Getc(e.dec)
       IN  /\ c' = nextc
           /\ pos' = Advance(e.dec)
           /\ units' = Append(units, Unit(c, <<c>>))
           /\ lastEsc' = [kind |-> e.kind, cp |-> c, raw |-> <<c>>, text |-> e.text]
           /\ IF 0 < nextc
              THEN /\ out' = out \o e.text
                   /\ isPrintable' = isprint(nextc)
                   /\ pc' = "a_ansi"
              ELSE /\ out' = out \o e.text \o <<39>>
                   /\ isPrintable' = isPrintable
                   /\ pc' = "a_delim"
    /\ UNCHANGED <<input, getUtf8Buff, getUtf8BuffLength, bytesInCodePoint, cbuff,
                   optionVars, procVars, stdoutVars, delivered, peeked, tokStart>>

\* lines 393-414: the condition of the outer loop
AsciiDelim ==
    /\ pc = "a_delim"
    /\ IF 0 = c
       THEN LET nextc == Getc(pos)
                sep == SeparatorWritten
            IN  /\ c' = nextc
                /\ pos' = Advance(pos)
                /\ IF EOF # nextc
                   THEN /\ out' = out \o sep
                        /\ IF ~SeparatorOk(out)
                           THEN isPrintable' = isPrintable /\ pc' = "done"
                           ELSE IF IsLeadingTilde(nextc)
                           THEN isPrintable' = TRUE /\ pc' = "a_esc"
                           ELSE isPrintable' = isPrintable /\ pc' = "a_outer"
                        /\ flushedLen' = (IF SeparatorOk(out)
                                          THEN SeparatorFlush(flushedLen, Len(out \o sep))
                                          ELSE ExitFlush(out \o sep))
                        /\ units' = (IF ignoreNullInput THEN units ELSE <<>>)
                        /\ tokStart' = (IF ignoreNullInput THEN tokStart ELSE Len(out \o sep))
                   ELSE /\ out' = out \o Terminator(TRUE)
                        /\ flushedLen' = ExitFlush(out')
                        /\ pc' = "done"
                        /\ UNCHANGED <<isPrintable, units, tokStart>>
       ELSE /\ out' = out \o Terminator(FALSE)
            /\ flushedLen' = ExitFlush(out')
            /\ pc' = "done"
            /\ UNCHANGED <<pos, c, isPrintable, units, tokStart>>
    /\ lastEsc' = NoEsc
    /\ exitCode' = (IF pc' = "done" THEN 0 ELSE exitCode)
    /\ UNCHANGED <<input, getUtf8Buff, getUtf8BuffLength, bytesInCodePoint, cbuff,
                   optionVars, optsLeft, optsDone, argv, pipeVars, stdoutBroken,
                   delivered, peeked>>

-----------------------------------------------------------------------------
(* The program: option values, inputs and the next-state relation *)

\* the input units of the engines: NUL, 0x01, tab, ESC, space, '$', quote,
\* '2', backslash, 'a', '~', a lone continuation byte 0x80, a lone 3-byte lead
\* 0xE1, U+00A0, U+0080, U+200B and U+10FFFF
Units ==
    {<<0>>, <<1>>, <<9>>, <<27>>, <<32>>, <<36>>, <<39>>, <<50>>, <<92>>, <<97>>, <<126>>,
     <<128>>, <<225>>, <<194, 160>>, <<194, 128>>, <<226, 128, 139>>,
     <<244, 143, 191, 191>>}

EngineInputs == {Flatten(us) : us \in SeqsUpTo(Units, MaxUnits)}

\* the option combinations of the engines with the default delimiter options.
\* The classifier options -i and -e are varied where iswprintFn is called: in
\* the UTF-8 engine.
EngineOptions ==
    {o \in [locale : {"UTF-8", "ANSI_X3.4-1968"},
            disableCQuoting : BOOLEAN,
            useUnicodeEscapes : BOOLEAN,
            iswprintFn : {"iswprint", "iswprintExt", "iswNotBlank"},
            ignoreNullInput : {FALSE},
            nullTerminatedOutput : {FALSE},
            flushArguments : {FALSE}] :
        o.iswprintFn # "iswprint" => (o.locale = "UTF-8" /\ ~o.disableCQuoting)}

Init == InitWith(EngineInputs, EngineOptions, "select")

Next ==
    \/ SelectEngine
    \/ Utf8Begin
    \/ Utf8Record
    \/ Utf8Classify
    \/ Utf8OpenQuote
    \/ Utf8Escape
    \/ Utf8Delim
    \/ AsciiBegin
    \/ AsciiRecord
    \/ AsciiClassify
    \/ AsciiOpenQuote
    \/ AsciiRaw
    \/ AsciiEscape
    \/ AsciiDelim

Spec == Init /\ [][Next]_vars

-----------------------------------------------------------------------------
(* Records and delimiters: short inputs over NUL, 'a' and '~' with -n, -z  *)
(* and -f varied, read from stdin or, in the child of the fork, from the   *)
(* pipe the parent fills with the arguments                                *)

\* longest input of the delimiter runs, in bytes
MaxStreamLen == 6
\* most arguments, and longest argument, of the delimiter runs
MaxArgs == 3
MaxArgLen == 1

StreamBytes == {0, 97, 126}
StreamInputs == SeqsUpTo(StreamBytes, MaxStreamLen)

\* -z and -f as the option loop leaves them (lines 245-247, 259-261)
StreamOptions ==
    {[locale |-> l, disableCQuoting |-> m, useUnicodeEscapes |-> FALSE,
      iswprintFn |-> "iswprint", ignoreNullInput |-> n,
      nullTerminatedOutput |-> zf[1], flushArguments |-> zf[2]] :
        l \in {"UTF-8", "ANSI_X3.4-1968"}, m \in BOOLEAN, n \in BOOLEAN,
        zf \in {<<FALSE, FALSE>>, <<TRUE, FALSE>>, <<TRUE, TRUE>>}}

\* argument lists: arguments are C strings, so they hold no NUL
ArgBytes == {97, 126}
ArgLists == SeqsUpTo(SeqsUpTo(ArgBytes, MaxArgLen), MaxArgs) \ {<<>>}

\* what the parent writes for the arguments: each followed by a NUL
\* (lines 295-298 and 303-311)
RECURSIVE ArgStream(_)
ArgStream(args) ==
    IF args = <<>> THEN <<>> ELSE Head(args) \o <<0>> \o ArgStream(Tail(args))

\* ignoreNullInput = 0 at line 281, when there are non-option arguments
ForkOptions(o) == [o EXCEPT !.ignoreNullInput = FALSE]

\* the child of the fork at line 325: stdin is the pipe (lines 320-323)
InitChild ==
    /\ \E args \in ArgLists :
          /\ InitEngine({ArgStream(args)}, {ForkOptions(o) : o \in StreamOptions}, "select")
          /\ ProcIs(<<>>, args, "child")

InitStream == InitWith(StreamInputs, StreamOptions, "select") \/ InitChild

SpecStream == InitStream /\ [][Next]_vars

\* the delimiter runs on a stdout that takes nothing (a closed pipe, a full
\* disk): every write(2) fails, so nothing leaves the buffer
InitWriteFail ==
    /\ InitEngineIo(StreamInputs, StreamOptions, "select", {TRUE})
    /\ ProcIs(<<>>, <<>>, "none")

SpecWriteFail == InitWriteFail /\ [][Next]_vars

-----------------------------------------------------------------------------
(* Termination: the engines under fairness, on short inputs in every mode *)

\* most input units of the termination runs
MaxLiveUnits == 2

\* the input units of the termination runs: NUL, 0x01 (escaped with a
\* lookahead), 'a', '~', a lone 3-byte lead 0xE1 (decoded with reads past
\* it), U+00A0 and U+10FFFF
LiveUnits ==
    {<<0>>, <<1>>, <<97>>, <<126>>, <<225>>, <<194, 160>>, <<244, 143, 191, 191>>}

LiveInputs == {Flatten(us) : us \in SeqsUpTo(LiveUnits, MaxLiveUnits)}

\* the modes of the termination runs: both engines, minimal mode, -u, and
\* -n with and without -z and -f
LiveOptions ==
    {o \in EngineOptions : o.iswprintFn = "iswprint"}
        \cup {o \in StreamOptions : o.ignoreNullInput}

InitLive == InitWith(LiveInputs, LiveOptions, "select")

\* the engines as a process that keeps running: main() is sequential code
\* with no blocking call but the reads of stdin, which return at once on an
\* input that is finite, so a step that can be taken is taken
SpecLive == InitLive /\ [][Next]_vars /\ WF_vars(Next)

-----------------------------------------------------------------------------
(* The option loop of main(), lines 153-278, and the test for non-option   *)
(* arguments at lines 279-281                                              *)

\* most options on a command line of the model
MaxOpts == 3

\* <sysexits.h>
EX_USAGE == 64
EX_OSERR == 71
EX_IOERR == 74

\* what getopt_long returns: an option letter of ":efimnuz", '$' for --help,
\* '%' for --version, '?' for an option it does not know
OptionLetters == {"e", "f", "i", "m", "n", "u", "z", "$", "%", "?"}
OptionLists == SeqsUpTo(OptionLetters, MaxOpts)

\* a variant of EscapeInvisible that selects iswprintExt whatever was selected
EscapeInvisible_Always(fn) == "iswprintExt"

\* case 'i', lines 245-248
EscapeInvisible(fn) == IF "iswNotBlank" # fn THEN "iswprintExt" ELSE fn

\* case 'e' and case 'i', lines 239-248
PolicyAfter(o, fn) ==
    IF o = "e" THEN "iswNotBlank"
    ELSE IF o = "i" THEN EscapeInvisible(fn)
    ELSE fn

\* one pass of the loop of lines 163-277: the switch on the option returned.
\* --help and --version print their text and exit(0); an unknown option
\* returns EX_USAGE.
ParseOption ==
    /\ pc = "options"
    /\ optsLeft # <<>>
    /\ LET o == Head(optsLeft)
       IN  /\ optsLeft' = Tail(optsLeft)
           /\ optsDone' = Append(optsDone, o)
           /\ iswprintFn' = PolicyAfter(o, iswprintFn)
           /\ flushArguments' = (flushArguments \/ o = "f")
           /\ nullTerminatedOutput' = (nullTerminatedOutput \/ o \in {"f", "z"})
           /\ disableCQuoting' = (disableCQuoting \/ o = "m")
           /\ ignoreNullInput' = (ignoreNullInput \/ o = "n")
           /\ useUnicodeEscapes' = (useUnicodeEscapes \/ o = "u")
           /\ ansiEscapesLimit' = (IF o = "u" THEN 28 ELSE ansiEscapesLimit)
           /\ pc' = (IF o \in {"$", "%", "?"} THEN "exit" ELSE "options")
           /\ exitCode' = (IF o = "?" THEN EX_USAGE ELSE exitCode)
    /\ UNCHANGED <<locale, engineVars, argv, pipeVars>>

\* getopt_long returns -1; lines 279-281: with non-option arguments -n is
\* reset and main() goes on to the fork, else to the engines
EndOptions ==
    /\ pc = "options"
    /\ optsLeft = <<>>
    /\ IF argv # <<>>
       THEN ignoreNullInput' = FALSE /\ pc' = "fork"
       ELSE ignoreNullInput' = ignoreNullInput /\ pc' = "select"
    /\ UNCHANGED <<locale, disableCQuoting, useUnicodeEscapes, ansiEscapesLimit,
                   iswprintFn, nullTerminatedOutput, flushArguments, engineVars,
                   procVars>>

\* the locales of the model
Locales == {"UTF-8", "ANSI_X3.4-1968"}

\* main() before the first getopt_long call: the options at their defaults
InitOptions ==
    /\ InitEngine({<<>>}, {[DefaultOptions EXCEPT !.locale = l] : l \in Locales}, "options")
    /\ \E opts \in OptionLists, args \in {<<>>, <<<<97>>>>} : ProcIs(opts, args, "none")

NextOptions == ParseOption \/ EndOptions

SpecOptions == InitOptions /\ [][NextOptions]_vars

-----------------------------------------------------------------------------
(* The parent of the fork, lines 282-319: it writes the arguments to the   *)
(* pipe, each followed by a NUL, closes the pipe and waits for the child.  *)
(* The child is the engine reading the pipe (InitChild); here it is seen   *)
(* from the parent, as a process that ends at some moment with a status.   *)

\* size of the parent's stdio buffer, BUFSIZ at line 293, scaled down
StreamBufSize == 2

\* how the child can end: return 0 (line 872), return EILSEQ (line 602), or
\* killed by a signal (SIGPIPE)
ChildStatuses ==
    {[kind |-> "exited", code |-> 0], [kind |-> "exited", code |-> 84],
     [kind |-> "signaled", code |-> 13]}

\* the int waitpid stores for a child that ended
StatusWord(cs) == IF cs.kind = "exited" THEN cs.code * 256 ELSE cs.code

\* <sys/wait.h>
WIFEXITED(status) == status % 128 = 0
WEXITSTATUS(status) == (status \div 256) % 256

\* a variant of ReturnValue that reports success whatever the child did
ReturnValue_Zero(status) == 0

\* line 318: the value main() returns after waitpid
ReturnValue(status) == IF WIFEXITED(status) THEN WEXITSTATUS(status) ELSE status + 128

\* the exit code of a process whose main() returned v
ExitStatus(v) == v % 256

\* a variant of ArgWithNul that leaves the NUL out
ArgWithNul_NoNul(arg) == arg

\* what the parent hands to the pipe for one argument: the string and its
\* terminating NUL (lines 296-297; strlen(str) + 1 at line 305)
ArgWithNul(arg) == arg \o <<0>>

\* nobody holds the read end of the pipe: a write fails with EPIPE, or
\* SIGPIPE ends the writer
NoReader == childStatus.kind # "running" /\ ~readEnd

\* putc_unlocked(b, stream) on a fully buffered stream: a full buffer is
\* written to the pipe first; eof is the call's EOF result, failed records a
\* write that failed
StdioPutc(st, b, canWrite) ==
    IF Len(st.buf) < StreamBufSize
    THEN [st EXCEPT !.buf = Append(@, b), !.eof = FALSE]
    ELSE IF canWrite
    THEN [st EXCEPT !.piped = @ \o st.buf, !.buf = <<b>>, !.eof = FALSE]
    ELSE [st EXCEPT !.err = TRUE, !.eof = TRUE, !.failed = TRUE]

\* lines 296-297: fputs_unlocked of the string and putc_unlocked of the NUL,
\* byte by byte; eof is the result of the last call
RECURSIVE StdioPutAll(_, _, _)
StdioPutAll(st, bytes, canWrite) ==
    IF bytes = <<>> THEN st
    ELSE StdioPutAll(StdioPutc(st, Head(bytes), canWrite), Tail(bytes), canWrite)

\* the parent ends without returning from waitpid: its descriptors close
ParentEnds(how, code) ==
    /\ pc' = how
    /\ exitCode' = code
    /\ pipeOpen' = FALSE
    /\ readEnd' = FALSE

\* lines 283-286: pipe() and fork(); either can fail
Fork ==
    /\ pc = "fork"
    /\ \E ok \in BOOLEAN :
          IF ok
          THEN /\ pc' = "parent"
               /\ parentPc' = "p_open"
               /\ pipeOpen' = TRUE
               /\ readEnd' = TRUE
               /\ childStatus' = Running
               /\ childWrite' = TRUE
               /\ UNCHANGED <<exitCode, childStdin>>
          ELSE /\ pc' = "exit"
               /\ exitCode' = EX_OSERR
               /\ UNCHANGED <<parentPc, pipeOpen, readEnd, childStatus, childWrite,
                              childStdin>>
    /\ UNCHANGED <<optionVars, engineVars, optsLeft, optsDone, argv, argIdx, stream, piped>>

\* lines 287-294 and 301-302: with several arguments fdopen the write end and
\* close the read end; with one argument use the descriptor as it is
ParentOpen ==
    /\ pc = "parent"
    /\ parentPc = "p_open"
    /\ IF Len(argv) > 1
       THEN \E ok \in BOOLEAN :
               IF ok
               THEN /\ readEnd' = FALSE
                    /\ parentPc' = "p_puts"
                    /\ UNCHANGED <<pc, exitCode, pipeOpen>>
               ELSE /\ ParentEnds("exit", EX_IOERR)
                    /\ UNCHANGED parentPc
       ELSE /\ parentPc' = "p_write"
            /\ UNCHANGED <<pc, exitCode, pipeOpen, readEnd>>
    /\ UNCHANGED <<optionVars, engineVars, optsLeft, optsDone, argv, argIdx, stream, piped,
                   childStatus, childWrite, childStdin>>

\* lines 295-299: one pass of the do loop: the argument and its NUL go to the
\* stream; EOF from putc_unlocked returns EX_IOERR.  A write to a pipe that
\* nobody reads fails, or SIGPIPE ends the parent.
ParentPuts ==
    /\ pc = "parent"
    /\ parentPc = "p_puts"
    /\ LET st == StdioPutAll([buf |-> stream.buf, piped |-> piped, err |-> stream.err,
                              eof |-> FALSE, failed |-> FALSE],
                             ArgWithNul(argv[argIdx + 1]), ~NoReader)
       IN  /\ stream' = [buf |-> st.buf, err |-> st.err]
           /\ piped' = st.piped
           /\ \E sigpipe \in (IF st.failed THEN BOOLEAN ELSE {FALSE}) :
                 IF sigpipe
                 THEN ParentEnds("killed", 13 + 128) /\ UNCHANGED <<parentPc, argIdx>>
                 ELSE IF st.eof
                 THEN ParentEnds("exit", EX_IOERR) /\ UNCHANGED <<parentPc, argIdx>>
                 ELSE /\ argIdx' = argIdx + 1
                      /\ parentPc' = (IF argIdx + 1 < Len(argv) THEN "p_puts" ELSE "p_fclose")
                      /\ UNCHANGED <<pc, exitCode, pipeOpen, readEnd>>
    /\ UNCHANGED <<optionVars, engineVars, optsLeft, optsDone, argv, childStatus,
                   childWrite, childStdin>>

\* line 300: fclose writes what the buffer holds and closes the write end;
\* its result is not looked at
ParentFclose ==
    /\ pc = "parent"
    /\ parentPc = "p_fclose"
    /\ IF stream.buf = <<>> \/ ~NoReader
       THEN /\ piped' = piped \o stream.buf
            /\ stream' = [stream EXCEPT !.buf = <<>>]
            /\ pipeOpen' = FALSE
            /\ parentPc' = "p_wait"
            /\ UNCHANGED <<pc, exitCode, readEnd>>
       ELSE /\ stream' = [stream EXCEPT !.err = TRUE]
            /\ piped' = piped
            /\ \E sigpipe \in BOOLEAN :
                  IF sigpipe
                  THEN ParentEnds("killed", 13 + 128) /\ UNCHANGED parentPc
                  ELSE /\ pipeOpen' = FALSE
                       /\ parentPc' = "p_wait"
                       /\ UNCHANGED <<pc, exitCode, readEnd>>
    /\ UNCHANGED <<optionVars, engineVars, optsLeft, optsDone, argv, argIdx, childStatus,
                   childWrite, childStdin>>

\* lines 303-313: one write() of what is left of the argument and its NUL,
\* which may take only a part; a negative result returns EX_IOERR; after the
\* last byte the descriptor is closed
ParentWrite ==
    /\ pc = "parent"
    /\ parentPc = "p_write"
    /\ LET bytes == ArgWithNul(argv[1])
           size == Len(bytes) - Len(piped)
       IN  IF NoReader
           THEN /\ piped' = piped
                /\ \E sigpipe \in BOOLEAN :
                      IF sigpipe THEN ParentEnds("killed", 13 + 128)
                      ELSE ParentEnds("exit", EX_IOERR)
                /\ UNCHANGED parentPc
           ELSE \E writeRc \in 1..size :
                   /\ piped' = piped \o SubSeq(bytes, Len(piped) + 1, Len(piped) + writeRc)
                   /\ IF size - writeRc # 0
                      THEN UNCHANGED <<parentPc, pipeOpen>>
                      ELSE pipeOpen' = FALSE /\ parentPc' = "p_wait"
                   /\ UNCHANGED <<pc, exitCode, readEnd>>
    /\ UNCHANGED <<optionVars, engineVars, optsLeft, optsDone, argv, argIdx, stream,
                   childStatus, childWrite, childStdin>>

\* lines 316-318: waitpid returns when the child has ended; main() returns
\* the child's exit status, or status + 128
ParentWait ==
    /\ pc = "parent"
    /\ parentPc = "p_wait"
    /\ childStatus.kind \in {"exited", "signaled"}
    /\ pc' = "exit"
    /\ parentPc' = "returned"
    /\ exitCode' = ExitStatus(ReturnValue(StatusWord(childStatus)))
    /\ readEnd' = FALSE
    /\ UNCHANGED <<optionVars, engineVars, optsLeft, optsDone, argv, argIdx, stream, piped,
                   pipeOpen, childStatus, childWrite, childStdin>>

\* lines 320-323: the child closes the write end and makes the read end its
\* standard input
ChildSetup ==
    /\ childStatus = Running
    /\ ~childStdin
    /\ childWrite' = FALSE
    /\ childStdin' = TRUE
    /\ UNCHANGED <<optionVars, engineVars, pc, optsLeft, optsDone, argv, parentPc, argIdx,
                   stream, piped, pipeOpen, readEnd, childStatus, exitCode>>

\* the child ends: it returns from main() or a signal kills it; its
\* descriptors close
ChildEnds ==
    /\ childStatus = Running
    /\ childStatus' \in ChildStatuses
    /\ childWrite' = FALSE
    /\ childStdin' = FALSE
    /\ UNCHANGED <<optionVars, engineVars, pc, optsLeft, optsDone, argv, parentPc, argIdx,
                   stream, piped, pipeOpen, readEnd, exitCode>>

\* main() at line 282, with the arguments of ArgLists
InitArgs ==
    /\ InitEngine({<<>>}, {DefaultOptions}, "fork")
    /\ \E args \in ArgLists : ProcIs(<<>>, args, "none")

NextArgs ==
    \/ Fork
    \/ ParentOpen
    \/ ParentPuts
    \/ ParentFclose
    \/ ParentWrite
    \/ ParentWait
    \/ ChildSetup
    \/ ChildEnds

SpecArgs == InitArgs /\ [][NextArgs]_vars

-----------------------------------------------------------------------------
(* What a shell makes of the output: quote removal of one word, written    *)
(* from the shell's rules (POSIX 2.2 and the $'...' form of bash, ksh and  *)
(* zsh), not from the program.                                             *)

\* the marker that ends a result when the text is not one well-formed word:
\* a value that is no byte
NotAWord == 0 - 1

\* characters that end or change a word when they stand unquoted
ShellSpecial == {0, 9, 10, 32, 33, 34, 35, 36, 38, 40, 41, 42, 59, 60, 62, 63, 91, 96, 123, 124}

\* the value of a hexadecimal or octal digit character
DigitValue(ch) ==
    IF ch >= 48 /\ ch <= 57 THEN ch - 48
    ELSE IF ch >= 65 /\ ch <= 70 THEN ch - 55
    ELSE ch - 87

\* how many of the characters o[i], o[i+1], ... are digits of the base, up to max
RECURSIVE DigitRun(_, _, _, _)
DigitRun(o, i, base, max) ==
    IF max = 0 \/ i > Len(o) THEN 0
    ELSE IF (IF base = 8 THEN IsOctalDigit(o[i]) ELSE isxdigit(o[i]))
    THEN 1 + DigitRun(o, i + 1, base, max - 1)
    ELSE 0

\* the number written by the n digits o[i..i+n-1]
RECURSIVE NumberAt(_, _, _, _)
NumberAt(o, i, n, base) ==
    IF n = 0 THEN 0
    ELSE NumberAt(o, i, n - 1, base) * base + DigitValue(o[i + n - 1])

\* the UTF-8 encoding of code point v, which a shell in a UTF-8 locale
\* substitutes for \u and \U
Utf8Encode(v) ==
    IF v < 128 THEN <<v>>
    ELSE IF v < 2048 THEN <<192 + (v \div 64), 128 + (v % 64)>>
    ELSE IF v < 65536
    THEN <<224 + (v \div 4096), 128 + ((v \div 64) % 64), 128 + (v % 64)>>
    ELSE <<240 + (v \div 262144), 128 + ((v \div 4096) % 64),
           128 + ((v \div 64) % 64), 128 + (v % 64)>>

\* the byte of a one-letter escape of $'...', or NotAWord
LetterEscape(ch) ==
    CASE ch = 97 -> 7 [] ch = 98 -> 8 [] ch = 116 -> 9 [] ch = 110 -> 10
      [] ch = 118 -> 11 [] ch = 102 -> 12 [] ch = 114 -> 13
      [] ch = 69 -> 27 [] ch = 101 -> 27
      [] ch = 92 -> 92 [] ch = 39 -> 39 [] ch = 34 -> 34
      [] OTHER -> NotAWord

\* quote removal of o from index i on; mode is "plain" outside quotes, "sq"
\* inside '...', "ansi" inside $'...'.  The result ends with NotAWord when an
\* unquoted special character, an unclosed quote or an unknown escape is met.
RECURSIVE QuoteRemoval(_, _, _)
QuoteRemoval(o, i, mode) ==
    IF i > Len(o) THEN (IF mode = "plain" THEN <<>> ELSE <<NotAWord>>)
    ELSE IF mode = "sq"
    THEN IF o[i] = 39 THEN QuoteRemoval(o, i + 1, "plain")
         ELSE <<o[i]>> \o QuoteRemoval(o, i + 1, "sq")
    ELSE IF mode = "plain"
    THEN IF o[i] = 39 THEN QuoteRemoval(o, i + 1, "sq")
         ELSE IF o[i] = 36 /\ i < Len(o) /\ o[i + 1] = 39 THEN QuoteRemoval(o, i + 2, "ansi")
         ELSE IF o[i] = 92
         THEN (IF i < Len(o) THEN <<o[i + 1]>> \o QuoteRemoval(o, i + 2, "plain")
               ELSE <<NotAWord>>)
         ELSE IF o[i] \in ShellSpecial \/ (o[i] = 126 /\ i = 1) THEN <<NotAWord>>
         ELSE <<o[i]>> \o QuoteRemoval(o, i + 1, "plain")
    ELSE IF o[i] = 39 THEN QuoteRemoval(o, i + 1, "plain")
    ELSE IF o[i] # 92 THEN <<o[i]>> \o QuoteRemoval(o, i + 1, "ansi")
    ELSE IF i = Len(o) THEN <<NotAWord>>
    ELSE IF IsOctalDigit(o[i + 1])
    THEN LET n == DigitRun(o, i + 1, 8, 3)
         IN  <<NumberAt(o, i + 1, n, 8) % 256>> \o QuoteRemoval(o, i + 1 + n, "ansi")
    ELSE IF o[i + 1] \in {117, 85}
    THEN LET n == DigitRun(o, i + 2, 16, IF o[i + 1] = 117 THEN 4 ELSE 8)
         IN  IF n = 0 THEN <<NotAWord>>
             ELSE Utf8Encode(NumberAt(o, i + 2, n, 16)) \o QuoteRemoval(o, i + 2 + n, "ansi")
    ELSE IF LetterEscape(o[i + 1]) = NotAWord THEN <<NotAWord>>
    ELSE <<LetterEscape(o[i + 1])>> \o QuoteRemoval(o, i + 2, "ansi")

\* the word a shell reads from text o
ShellWord(o) == QuoteRemoval(o, 1, "plain")

\* the bytes of the current record's token written so far
Token == SubSeq(out, tokStart + 1, Len(out))

\* the engine has finished the current record's token
RecordDone == pc \in {"u_delim", "a_delim"}

\* the values of a sequence
Range(f) == {f[i] : i \in DOMAIN f}

-----------------------------------------------------------------------------
(* Claims about the code-point source, checked under SpecDecoder *)

\* a byte of the form 10xxxxxx
IsTrailByte(b) == b >= 128 /\ b <= 191

\* the bytes read from stdin that are still queued in getUtf8Buff
IsByte(b) == b >= 0
PendingBytes == SelectSeq(SubSeq(getUtf8Buff, 1, getUtf8BuffLength), IsByte)

\* the unit the next getUtf8CodePoint call delivers, and where it starts in input
NextUnit == getUtf8CodePoint(DecoderState)
NextStart == Len(delivered) + 1

\* the sequence length a lead byte announces (0: not a lead byte)
AnnouncedLength(b) ==
    IF b >= 192 /\ b <= 223 THEN 2
    ELSE IF b >= 224 /\ b <= 239 THEN 3
    ELSE IF b >= 240 /\ b <= 247 THEN 4
    ELSE 0

\* input[k..k+n-1] is a lead byte followed by n-1 bytes 10xxxxxx
HasTrailBytes(k, n) ==
    /\ k + n - 1 <= Len(input)
    /\ \A i \in 1..(n - 1) : IsTrailByte(input[k + i])

\* the value the payload bits of the n-byte sequence at input[k] encode
RECURSIVE PayloadValue(_, _, _)
PayloadValue(k, n, i) ==
    IF i = 0 THEN input[k] % (IF n = 2 THEN 32 ELSE IF n = 3 THEN 16 ELSE 8)
    ELSE PayloadValue(k, n, i - 1) * 64 + (input[k + i] % 64)

\* an n-byte sequence of value v is overlong, a surrogate or above U+10FFFF
IllFormedValue(n, v) ==
    \/ (n = 2 /\ v < 128)
    \/ (n = 3 /\ (v < 2048 \/ (v >= 55296 /\ v <= 57343)))
    \/ (n = 4 /\ (v < 65536 \/ v > 1114111))

\* C2: a unit is delivered as a combined multi-byte scalar only if every byte
\* after its lead byte, up to the length the lead byte announces, has the
\* form 10xxxxxx.  (The code tests only the last byte of a 3- and 4-byte
\* sequence, lines 653 and 677.)
C2_TrailBytesChecked ==
    bytesInCodePoint >= 2 => \A i \in 2..bytesInCodePoint : IsTrailByte(cbuff[i])

\* C3: the raw bytes of the units delivered so far, followed by the bytes
\* still queued, are exactly the bytes read from stdin, and once end of input
\* has been delivered the raw bytes of all units are the whole input
C3_ByteExact ==
    /\ delivered \o PendingBytes = SubSeq(input, 1, pos)
    /\ pc = "drained" => delivered = input

\* C3 witness: a malformed input (0xE0 'a' ...) read to its end with a
\* lookahead done on the way
C3_Witness ==
    /\ pc = "drained"
    /\ peeked
    /\ Len(input) >= 3
    /\ input[1] = 224
    /\ input[2] = 97
    /\ delivered = input

\* C8: a well-formed-looking sequence whose value is overlong, a surrogate or
\* above U+10FFFF is delivered as its lead byte alone, undecoded; and no
\* combined scalar that is delivered has such a value
C8_IllFormedValuesRejected ==
    (pc = "decoder" /\ NextStart <= Len(input)) =>
        LET n == AnnouncedLength(input[NextStart])
        IN  /\ (n >= 2 /\ HasTrailBytes(NextStart, n)
                  /\ IllFormedValue(n, PayloadValue(NextStart, n, n - 1)))
                  => (NextUnit.bytesInCodePoint = 0 /\ NextUnit.rc = input[NextStart])
            /\ NextUnit.bytesInCodePoint >= 2
                  => ~IllFormedValue(NextUnit.bytesInCodePoint, NextUnit.rc)

\* C8 witness: the surrogate encoding ED A0 80 was at the head of the input
\* and its lead byte has been delivered alone
C8_Witness ==
    /\ pc = "decoder"
    /\ Len(input) >= 3
    /\ input[1] = 237 /\ input[2] = 160 /\ input[3] = 128
    /\ delivered = <<237>>
    /\ c = 237
    /\ bytesInCodePoint = 0

\* C9: a lookahead consumes nothing: after getUtf8CodePoint directly followed
\* by ungetUtf8CodePoint of its result, the units delivered from then on
\* (value, width and raw bytes of each, up to end of input) are those that
\* would have been delivered without the lookahead
C9_LookaheadConsumesNothing ==
    Drain(Lookahead(DecoderState)) = Drain(DecoderState)

\* C9 witness: a 4-byte scalar has been looked at and pushed back, and is
\* delivered again by the next call
C9_Witness ==
    /\ peeked
    /\ getUtf8BuffLength = 4
    /\ NextUnit.bytesInCodePoint = 4
    /\ Drain(Lookahead(DecoderState)) = Drain(DecoderState)

\* the entries of getUtf8Buff that are queued in decoder state s
QueueOf(s) == SubSeq(s.getUtf8Buff, 1, s.getUtf8BuffLength)

\* the entries ungetUtf8CodePoint puts in front of the queue for the unit a
\* getUtf8CodePoint call left in state g: its raw bytes, or the value itself
PushedBack(g) ==
    IF g.bytesInCodePoint # 0 THEN SubSeq(g.cbuff, 1, g.bytesInCodePoint) ELSE <<g.rc>>

\* the highest index of getUtf8Buff the memmove at the return of the
\* getUtf8CodePoint call that left state g has touched (lines 727, 739): the
\* source of the move starts past the unit and spans what is left in the queue
GetTop(g) ==
    IF g.getUtf8BuffLength = 0 THEN 0
    ELSE (IF g.bytesInCodePoint >= 2 THEN g.bytesInCodePoint ELSE 1)
             + g.getUtf8BuffLength - 1

\* the highest index of getUtf8Buff ungetUtf8CodePoint touches when called in
\* state g (lines 746-751 and 759-762)
UngetTop(g) ==
    IF g.bytesInCodePoint # 0 THEN g.bytesInCodePoint + g.getUtf8BuffLength - 1
    ELSE IF 4 > g.getUtf8BuffLength THEN g.getUtf8BuffLength
    ELSE 0

\* C23: the queue never holds more than four entries, the accesses of
\* getUtf8CodePoint and of a push-back that follows it stay below index 4, and
\* the push-back keeps every entry that was still queued: after it the queue
\* is the pushed-back unit followed by what was queued before
C23_QueueBounded ==
    LET g == NextUnit
        u == Lookahead(DecoderState)
    IN  /\ getUtf8BuffLength <= 4
        /\ g.getUtf8BuffLength <= 4
        /\ u.getUtf8BuffLength <= 4
        /\ GetTop(g) < 4
        /\ UngetTop(g) < 4
        /\ g.bytesInCodePoint = 0 => g.getUtf8BuffLength < 4
        /\ QueueOf(u) = PushedBack(g) \o QueueOf(g)

\* C23 witness: after a lookahead the queue is full, its first entry is a
\* byte that is delivered undecoded, and pushing that byte back again finds
\* the three input bytes behind it still queued
C23_Witness ==
    /\ peeked
    /\ getUtf8BuffLength = 4
    /\ NextUnit.bytesInCodePoint = 0
    /\ NextUnit.rc >= 128
    /\ NextUnit.getUtf8BuffLength = 3
    /\ \A i \in 2..4 : getUtf8Buff[i] >= 0
    /\ QueueOf(Lookahead(DecoderState)) = QueueOf(DecoderState)

-----------------------------------------------------------------------------
(* Claims about the engines, checked under Spec *)

\* the unit was decoded by getUtf8CodePoint (it is not a raw byte above 127)
IsDecoded(u) == u.cp < 128 \/ Len(u.raw) >= 2

\* the raw input bytes of the units of the current record
RECURSIVE RawOf(_)
RawOf(us) == IF us = <<>> THEN <<>> ELSE Head(us).raw \o RawOf(Tail(us))

\* text is a backslash and 1 to max digits of the base that write value v
IsNumericEscape(text, lead, base, max, v) ==
    LET k == Len(lead)
    IN  /\ Len(text) > k
        /\ Len(text) <= k + max
        /\ SubSeq(text, 1, k) = lead
        /\ DigitRun(text, k + 1, base, max) = Len(text) - k
        /\ \A i \in (k + 1)..Len(text) : text[i] < 97
        /\ NumberAt(text, k + 1, Len(text) - k, base) = v

\* C1: for an input without NUL bytes (one record) the whole output is one
\* shell word whose quote removal is the input, byte for byte.  (Violated:
\* C2's decoder takes E1 20 80 for one printable code point and the engine
\* writes its raw bytes, the space among them, unquoted.)
C1_RoundTrip ==
    (pc = "done" /\ 0 \notin Range(input)) => ShellWord(out) = input

\* C4: a numeric escape is never followed by a literal that reads as one more
\* of its digits: c is the code point read after the escape lastEsc; a single
\* octal escape before '0'..'7' has 3 digits, every escape of a per-byte
\* octal run has 3 digits, \u before a hex digit has 4 digits, and after \U
\* before a hex digit the quoted run has been closed
C4_DigitsNotAbsorbed ==
    /\ (lastEsc.kind = "octal" /\ c >= 48 /\ c <= 55) => Len(lastEsc.text) = 4
    /\ lastEsc.kind = "octalbytes" => Len(lastEsc.text) = 4 * Len(lastEsc.raw)
    /\ (lastEsc.kind = "u" /\ isxdigit(c)) => Len(lastEsc.text) = 6
    /\ (lastEsc.kind = "U" /\ isxdigit(c)) => (pc # "u_ansi" /\ out[Len(out)] = 39)

\* C4 witness: byte 0x01 was escaped as \001 and '2' is the next code point
C4_Witness ==
    /\ lastEsc.kind = "octal"
    /\ lastEsc.cp = 1
    /\ lastEsc.text = <<92, 48, 48, 49>>
    /\ c = 50

\* C5: a record whose first code point is '~' has that '~' inside a quoted
\* run that opens the token: the token begins $'~ or '~
C5_LeadingTildeQuoted ==
    (units # <<>> /\ units[1].cp = 126) =>
        \/ (Len(Token) >= 3 /\ SubSeq(Token, 1, 3) = <<36, 39, 126>>)
        \/ (Len(Token) >= 2 /\ SubSeq(Token, 1, 2) = <<39, 126>>)

\* C5 witness: a record that follows a separator began with '~'
C5_Witness ==
    /\ units # <<>>
    /\ units[1].cp = 126
    /\ tokStart > 0
    /\ RecordDone

\* C6: a record with no code points is written as the two characters ''
C6_EmptyRecord ==
    (RecordDone /\ units = <<>>) => Token = <<39, 39>>

\* C6 witness: an empty record that follows a separator and is ended by NUL
C6_Witness ==
    /\ RecordDone
    /\ units = <<>>
    /\ tokStart > 0
    /\ c = 0
    /\ Token = <<39, 39>>

\* a unit that is printable under the strict policy and no shell
\* metacharacter: decoded and iswprint in the UTF-8 engine; in the ASCII
\* engine, whose units are bytes, isprint or, in a UTF-8 locale, a byte of a
\* multi-byte code point
IsPlainUnit(u) ==
    /\ ~(u.cp < 128 /\ u.cp \in shControlChars)
    /\ IF UsesAsciiEngine THEN isprint(u.cp) \/ (locale = "UTF-8" /\ u.cp >= 128)
       ELSE IsDecoded(u) /\ iswprint(u.cp)

\* C7: under the strict policy a non-empty record that does not begin with
\* '~' and has only printable code points that are no shell metacharacters
\* is written unchanged: the token is the record's raw bytes
C7_PlainRecordUnchanged ==
    (/\ RecordDone
     /\ iswprintFn = "iswprint"
     /\ units # <<>>
     /\ units[1].cp # 126
     /\ \A i \in 1..Len(units) : IsPlainUnit(units[i]))
        => Token = RawOf(units)

\* C7 witness: the record U+00A0 'a' in the UTF-8 engine, written as it is
C7_Witness ==
    /\ RecordDone
    /\ iswprintFn = "iswprint"
    /\ ~UsesAsciiEngine
    /\ Len(units) = 2
    /\ units[1].cp = 160 /\ units[2].cp = 97
    /\ Token = <<194, 160, 97>>

\* the letter of the named escape of a control code
EscapeLetter(cp) ==
    CASE cp = 7 -> 97 [] cp = 8 -> 98 [] cp = 9 -> 116 [] cp = 10 -> 110
      [] cp = 11 -> 118 [] cp = 12 -> 102 [] cp = 13 -> 114 [] OTHER -> 69

\* text is one 3-digit octal escape per byte of raw
IsOctalRun(text, raw) ==
    /\ Len(text) = 4 * Len(raw)
    /\ \A j \in 1..Len(raw) :
          IsNumericEscape(SubSeq(text, 4 * j - 3, 4 * j), <<92>>, 8, 3, raw[j])

\* C10: the form of an escape follows the priority order: a named escape for
\* 7..13 and, with -u only, for 0x1B; else one octal escape for a code point
\* below 128 or a raw byte; else without -u a 3-digit octal escape per raw
\* byte; else \u up to U+FFFF and \U above
C10_EscapeForm ==
    lastEsc.kind \notin {"none", "literal"} =>
        LET cp == lastEsc.cp
            raw == lastEsc.raw
            text == lastEsc.text
        IN  IF (cp >= 7 /\ cp <= 13) \/ (cp = 27 /\ useUnicodeEscapes)
            THEN text = <<92, EscapeLetter(cp)>>
            ELSE IF cp < 128 \/ Len(raw) = 1
            THEN IsNumericEscape(text, <<92>>, 8, 3, cp)
            ELSE IF ~useUnicodeEscapes
            THEN IsOctalRun(text, raw)
            ELSE IF cp <= 65535
            THEN IsNumericEscape(text, <<92, 117>>, 16, 4, cp)
            ELSE IsNumericEscape(text, <<92, 85>>, 16, 8, cp)

\* C10 witness: with -u, the raw undecodable byte 0xE1 is still written as an
\* octal escape
C10_Witness ==
    /\ useUnicodeEscapes
    /\ lastEsc.kind = "octal"
    /\ lastEsc.cp = 225
    /\ lastEsc.raw = <<225>>
    /\ lastEsc.text = <<92, 51, 52, 49>>

-----------------------------------------------------------------------------
(* Claims about records and delimiters, checked under SpecStream *)

\* the pieces of s between the occurrences of byte b
RECURSIVE SplitOn(_, _)
SplitOn(s, b) ==
    IF s = <<>> THEN << <<>> >>
    ELSE LET rest == SplitOn(Tail(s), b)
         IN  IF Head(s) = b THEN << <<>> >> \o rest
             ELSE << <<Head(s)>> \o Head(rest) >> \o Tail(rest)

\* the sequence ends with a NUL
EndsWithNul(s) == s # <<>> /\ s[Len(s)] = 0

\* the sequence without the NUL at its end, if it has one
WithoutLastNul(s) == IF EndsWithNul(s) THEN SubSeq(s, 1, Len(s) - 1) ELSE s

\* how many NUL bytes the sequence holds
NulCount(s) == Cardinality({i \in DOMAIN s : s[i] = 0})

\* the sequence without its NUL bytes
IsNotNul(b) == b # 0
WithoutNuls(s) == SelectSeq(s, IsNotNul)

\* the records of an input: the NUL-terminated strings and, after them, a
\* last string that no NUL terminates; the empty input is one empty record
Records(inp) == SplitOn(WithoutLastNul(inp), 0)

\* the byte that separates the tokens of the output
SeparatorByte == IF nullTerminatedOutput \/ flushArguments THEN 0 ELSE 32

\* the output up to the trailing NUL terminator, cut at the separators
OutputTokens ==
    SplitOn(IF nullTerminatedOutput THEN WithoutLastNul(out) ELSE out, SeparatorByte)

\* C11: with -n off, the n records of the input give n tokens in input
\* order, one separator between two tokens and none before the first: cut
\* at the separator byte (a space, or NUL with -z or -f) the output is n
\* non-empty tokens, and the shell reads token i as record i
C11_TokensAndSeparators ==
    (pc = "done" /\ ~ignoreNullInput) =>
        /\ Len(OutputTokens) = Len(Records(input))
        /\ \A i \in 1..Len(OutputTokens) :
              /\ OutputTokens[i] # <<>>
              /\ ShellWord(OutputTokens[i]) = Records(input)[i]

\* C11 witness: three records, the second empty, separated by NUL under -f
C11_Witness ==
    /\ pc = "done"
    /\ ~ignoreNullInput
    /\ flushArguments
    /\ input = <<97, 0, 0, 126>>
    /\ Len(OutputTokens) = 3
    /\ OutputTokens[2] = <<39, 39>>

\* C12 as stated: with -z (and -n off) a NUL follows the last token iff the
\* input's last record ended with a NUL or -f is set.  (Violated: with -f and
\* an input that does not end with NUL no NUL is written, lines 866-868.)
C12_TerminatorOrFlush ==
    (pc = "done" /\ nullTerminatedOutput /\ ~ignoreNullInput) =>
        (EndsWithNul(out) <=> (EndsWithNul(input) \/ flushArguments))

\* C12 amended: with -z or -f (and -n off) a NUL follows the last token iff
\* the input's last record ended with a NUL, -f or not; the output holds as
\* many NUL bytes as the input, so three NUL-terminated records give three
C12_TerminatorIffTerminated ==
    (pc = "done" /\ nullTerminatedOutput /\ ~ignoreNullInput) =>
        /\ EndsWithNul(out) <=> EndsWithNul(input)
        /\ NulCount(out) = NulCount(input)

\* C12 witness: three NUL-terminated records under -z, three NULs written
C12_Witness ==
    /\ pc = "done"
    /\ nullTerminatedOutput
    /\ ~ignoreNullInput
    /\ input = <<97, 0, 126, 0, 97, 0>>
    /\ NulCount(out) = 3
    /\ EndsWithNul(out)

\* C13: with -z, when -n is set or the input comes from arguments, exactly
\* one NUL follows the last token
C13_TerminatorAlways ==
    (pc = "done" /\ nullTerminatedOutput /\ (ignoreNullInput \/ argv # <<>>)) =>
        /\ Len(out) >= 2
        /\ out[Len(out)] = 0
        /\ out[Len(out) - 1] # 0

\* C13 witness: -z and -n with an input that does not end with NUL
C13_Witness ==
    /\ pc = "done"
    /\ nullTerminatedOutput
    /\ ignoreNullInput
    /\ input = <<97, 0, 97>>
    /\ EndsWithNul(out)

\* C14: with -n on stdin no separator is written for a NUL of the input and
\* the stream is one record: up to the terminator the output is one shell
\* word, and the shell reads it as the input without its NUL bytes
C14_OneRecord ==
    (pc = "done" /\ ignoreNullInput) =>
        ShellWord(IF nullTerminatedOutput THEN WithoutLastNul(out) ELSE out)
            = WithoutNuls(input)

\* C14 witness: -n with NUL bytes in mid-stream, one of them before a '~'
C14_Witness ==
    /\ pc = "done"
    /\ ignoreNullInput
    /\ input = <<97, 0, 0, 126, 97>>
    /\ 32 \notin Range(out)

\* C19: in flush mode, whenever the last byte written is the NUL separator
\* that follows a record, stdout has been flushed up to it: nothing more is
\* read or written between the separator and its flush
C19_FlushAfterSeparator ==
    (flushArguments /\ EndsWithNul(out)) => flushedLen = Len(out)

\* C19 witness: -f, the separator after the first record has been written
\* and flushed, and the second record is still to be written
C19_Witness ==
    /\ flushArguments
    /\ pc \notin {"done", "select"}
    /\ EndsWithNul(out)
    /\ tokStart = Len(out)
    /\ flushedLen = Len(out)
    /\ c = 97

\* the index in inp of its k-th NUL byte, 0 when it holds fewer
NthNul(inp, k) ==
    LET at == {i \in DOMAIN inp : inp[i] = 0 /\ NulCount(SubSeq(inp, 1, i)) = k}
    IN  IF at = {} THEN 0 ELSE CHOOSE i \in at : TRUE

\* how many separator bytes the output holds
SeparatorCount(o) == Cardinality({i \in DOMAIN o : o[i] = SeparatorByte})

\* C26: with -n off, a step that writes the k-th separator, or flushes
\* stdout before the end, has read past the k-th NUL of the input and leaves
\* in c the unit that follows that NUL; and the step that reads end of input
\* after a NUL writes no separator: it writes the trailing NUL under -z and
\* nothing otherwise
C26_SeparatorAfterRead ==
    [][/\ (/\ ~ignoreNullInput
           /\ pc' # "done"
           /\ \/ SeparatorCount(out') > SeparatorCount(out)
              \/ flushedLen' > flushedLen)
             => LET n == NthNul(input, SeparatorCount(out'))
                IN  /\ n > 0
                    /\ pos' > n
                    /\ c' = input[n + 1]
                    /\ out' = Append(out, SeparatorByte)
       /\ (RecordDone /\ c = 0 /\ c' = EOF)
             => out' = out \o (IF nullTerminatedOutput THEN <<0>> ELSE <<>>)]_vars

\* C26 witness: under -z -f the records 'a' and '~', each ended by a NUL,
\* have been written: a separator after the first token, written with '~'
\* read, and one trailing NUL after the second
C26_Witness ==
    /\ pc = "done"
    /\ nullTerminatedOutput
    /\ flushArguments
    /\ ~ignoreNullInput
    /\ input = <<97, 0, 126, 0>>
    /\ Len(OutputTokens) = 2
    /\ NulCount(out) = 2
    /\ EndsWithNul(out)

-----------------------------------------------------------------------------
(* Claims about minimal mode and the options, checked under Spec *)

\* the scan of an output in minimal mode fails
ScanFailed == [ok |-> FALSE, copied |-> <<>>, open |-> FALSE]

\* read an output s as the shell reads it without $'...': outside a '...'
\* region (inRegion FALSE) a quote opens one, a backslash must come with a
\* quote after it, and '$' must not occur; inside a region a quote closes it
\* and every other byte is itself.  copied are the bytes that stand for
\* themselves, open says whether the scan ends inside a region.
RECURSIVE MinimalScan(_, _)
MinimalScan(s, inRegion) ==
    IF s = <<>> THEN [ok |-> TRUE, copied |-> <<>>, open |-> inRegion]
    ELSE IF Head(s) = 39 THEN MinimalScan(Tail(s), ~inRegion)
    ELSE IF ~inRegion /\ Head(s) = 36 THEN ScanFailed
    ELSE IF ~inRegion /\ Head(s) = 92
    THEN IF Len(s) >= 2 /\ s[2] = 39
         THEN LET r == MinimalScan(Tail(Tail(s)), FALSE)
              IN  [r EXCEPT !.copied = <<39>> \o @]
         ELSE ScanFailed
    ELSE LET r == MinimalScan(Tail(s), inRegion)
         IN  [r EXCEPT !.copied = <<Head(s)>> \o @]

\* the bytes of the records of an input, with the space that separates two
\* tokens in the place of the NUL that separates two records
RecordBytes(inp) ==
    LET w == WithoutLastNul(inp)
    IN  [i \in 1..Len(w) |-> IF w[i] = 0 THEN 32 ELSE w[i]]

InDenylist(ch) == iswprint(ch) /\ ~iswprintExt(ch)

\* the record the UTF-8 engine has just finished holds decoded code points
\* of the table only
DenylistRecord ==
    /\ RecordDone
    /\ ~UsesAsciiEngine
    /\ units # <<>>
    /\ \A i \in 1..Len(units) : IsDecoded(units[i]) /\ InDenylist(units[i].cp)

\* the token starts a $'...' run with a backslash escape
StartsEscaped == Len(Token) >= 3 /\ SubSeq(Token, 1, 3) = <<36, 39, 92>>

\* C17 as stated: a code point of the classifier's table of invisible code
\* points is escaped under every policy, the default one included.
\* (Violated: with neither -i nor -e the classifier is iswprint, line 147,
\* and U+200B is written as its three raw bytes.)
C17_DenylistAlwaysEscaped == DenylistRecord => StartsEscaped

\* C17 amended: a code point of the table is escaped under the policies of
\* -i and -e; under the default policy the table is not consulted and the
\* code point is written as iswprint classifies it, here unchanged
C17_DenylistEscapedByOption ==
    DenylistRecord =>
        IF iswprintFn = "iswprint" THEN Token = RawOf(units) ELSE StartsEscaped

\* C17 witness: U+200B under -i, written as the octal escapes of its bytes
C17_Witness ==
    /\ DenylistRecord
    /\ iswprintFn = "iswprintExt"
    /\ ~useUnicodeEscapes
    /\ units = <<Unit(8203, <<226, 128, 139>>)>>
    /\ Token = <<36, 39>> \o OctalBytes(<<226, 128, 139>>) \o <<39>>

\* C18: in the ASCII engine -u changes nothing: the escape written for a
\* byte is the one written without -u, a named escape only for the bytes below
\* 14, the default ansiEscapesLimit (in minimal mode no escape is written at
\* all).  (Violated: -u sets ansiEscapesLimit to sizeof(ansiEscapes) in every
\* locale, line 257, and the ASCII engine then writes \E for byte 0x1B.)
C18_UnicodeEscapesNoEffect ==
    (UsesAsciiEngine /\ lastEsc.kind = "named") => lastEsc.cp < 14

-----------------------------------------------------------------------------
(* Claims about the option loop, checked under SpecOptions *)

\* option o is among the options parsed
Parsed(o) == o \in Range(optsDone)

\* the first of -e and -i on the command line
FirstOfEI == SelectSeq(optsDone, LAMBDA o : o \in {"e", "i"})[1]

\* C16 as stated: with both -e and -i the policy is that of whichever of
\* the two was parsed first.  (Violated: -e sets iswNotBlank whatever came
\* before it, line 240, so -i -e ends with the policy of -e.)
C16_FirstParsedWins ==
    (pc \in {"select", "fork"} /\ Parsed("e") /\ Parsed("i")) =>
        iswprintFn = (IF FirstOfEI = "e" THEN "iswNotBlank" ELSE "iswprintExt")

\* C16 amended: with both -e and -i the policy is the nonblank policy of -e,
\* in either order; at no step does -i replace the nonblank policy once -e
\* has selected it
C16_EscapeMoreWins ==
    /\ (pc \in {"select", "fork"} /\ Parsed("e") /\ Parsed("i")) =>
           iswprintFn = "iswNotBlank"
    /\ Parsed("e") => iswprintFn = "iswNotBlank"

\* C16 witness: -i -e has been parsed and the policy is that of -e
C16_Witness ==
    /\ pc = "select"
    /\ optsDone = <<"i", "e">>
    /\ iswprintFn = "iswNotBlank"

-----------------------------------------------------------------------------
(* Claims about the parent of the fork, checked under SpecArgs *)

\* s is t up to some position
IsPrefix(s, t) == Len(s) <= Len(t) /\ s = SubSeq(t, 1, Len(s))

\* C20: the parent writes the arguments to the pipe in their order, each
\* whole and followed by one NUL: what is in the pipe is always the start of
\* that stream; unless a write failed, the write end is closed by the parent
\* only when the whole stream is in the pipe; the parent returns only after
\* the child has ended, with the child's exit status as its own (128 plus the
\* signal number when a signal ended the child)
C20_ParentFeedsAndWaits ==
    /\ IsPrefix(piped, ArgStream(argv))
    /\ (pc = "parent" /\ ~pipeOpen) => parentPc = "p_wait"
    /\ parentPc \in {"p_wait", "returned"} =>
          (~pipeOpen /\ (~stream.err => piped = ArgStream(argv)))
    /\ parentPc = "returned" =>
          /\ childStatus.kind \in {"exited", "signaled"}
          /\ childStatus.kind = "exited" => exitCode = childStatus.code
          /\ childStatus.kind = "signaled" => exitCode = childStatus.code + 128

\* C20 witness: three arguments written through the stream, the pipe closed,
\* the child returned 84 and so does the parent
C20_Witness ==
    /\ parentPc = "returned"
    /\ argv = <<<<97>>, <<>>, <<126>>>>
    /\ piped = <<97, 0, 0, 126, 0>>
    /\ ~pipeOpen
    /\ childStatus = [kind |-> "exited", code |-> 84]
    /\ exitCode = 84

-----------------------------------------------------------------------------
(* Claims about failed writes, checked under SpecWriteFail *)

\* a write to stdout has failed: more bytes were handed to stdout than its
\* buffer holds, so one of them was refused
WriteRefused == stdoutBroken /\ Len(out) - flushedLen > StdoutBufSize

\* C22: a failed write to stdout is fatal: once a byte has been refused the
\* engine reads no further input, and when the engine ends with output that
\* could not be written the exit status is not 0.  (Violated: only the
\* separator's putc_unlocked and fflush_unlocked are looked at, lines 850-854;
\* inside a record the engine reads on, and main() ends with return 0 at
\* line 872 whatever happened.)
C22_WriteFailureFatal ==
    [][/\ WriteRefused => pos' = pos
       /\ (pc' = "done" /\ stdoutBroken /\ out' # <<>>) => exitCode' # 0]_vars

-----------------------------------------------------------------------------
(* Claims about the ends of the pipe, checked under SpecArgs *)

\* C21: after the fork each end of the pipe is held by one side only: the
\* parent no longer holds the read end when it writes or has written, with
\* one argument as with several, and the child, once set up, does not hold
\* the write end and reads the pipe as its standard input.  (Violated: with
\* one argument, lines 301-313, the parent never closes streamPipe[0].)
C21_OneSidePerEnd ==
    /\ (parentPc \in {"p_puts", "p_fclose", "p_write", "p_wait"} /\ pc = "parent")
          => ~readEnd
    /\ (childStatus = Running /\ childStdin) => ~childWrite


-----------------------------------------------------------------------------
(* Claims about the quoted regions of a token, checked under Spec *)

\* the quoting of token o read from index i on, as the shell reads it: mode
\* is "plain" outside a quoted region, "sq" inside '...', "ansi" inside
\* $'...'; bare says that a byte of shControlChars was met outside a region
\* that neither opens one nor is the quote of \'.  The result is the mode the
\* scan ends in, and bare.
RECURSIVE RegionScan(_, _, _, _)
RegionScan(o, i, mode, bare) ==
    IF i > Len(o) THEN [mode |-> mode, bare |-> bare]
    ELSE IF mode = "sq"
    THEN RegionScan(o, i + 1, IF o[i] = 39 THEN "plain" ELSE "sq", bare)
    ELSE IF mode = "ansi"
    THEN IF o[i] = 39 THEN RegionScan(o, i + 1, "plain", bare)
         ELSE IF o[i] = 92 THEN RegionScan(o, i + 2, "ansi", bare)
         ELSE RegionScan(o, i + 1, "ansi", bare)
    ELSE IF o[i] = 39 THEN RegionScan(o, i + 1, "sq", bare)
    ELSE IF o[i] = 36 /\ i < Len(o) /\ o[i + 1] = 39
    THEN RegionScan(o, i + 2, "ansi", bare)
    ELSE IF o[i] = 92 /\ i < Len(o) /\ o[i + 1] = 39
    THEN RegionScan(o, i + 2, "plain", bare)
    ELSE RegionScan(o, i + 1, "plain", bare \/ IsShControlChar(o[i]))

\* the scan of the current record's token
TokenScan == RegionScan(Token, 1, "plain", FALSE)

\* C24: no byte of shControlChars is written outside a quoted region, except
\* the quote of \' and the characters that open a region; and the text
\* written for a unit inside $'...' has no quote or backslash of the input
\* without a backslash before it.  (Violated: C2's decoder takes E1 20 80 and
\* E1 27 80 for one printable code point each, and the engine writes the raw
\* bytes, the space and the quote among them, as they are.)
C24_MetacharactersQuoted ==
    /\ ~TokenScan.bare
    /\ lastEsc.kind = "literal" =>
          IF lastEsc.cp \in {39, 92} THEN lastEsc.text = <<92, lastEsc.cp>>
          ELSE Range(lastEsc.text) \cap {39, 92} = {}

\* C25: when the engine has finished a record's token, and so before it
\* writes a separator or the terminator and when it has reached end of input,
\* every region opened in the token is closed.  (Violated: by C2 the raw
\* bytes E1 27 80 are written as one printable code point and their quote
\* opens, or closes too early, a region.)
C25_RegionsClosed ==
    RecordDone => TokenScan.mode = "plain"


-----------------------------------------------------------------------------
(* Claims about termination, checked under SpecLive *)

\* the bytes of the record the engine ends in: the input's last record, or
\* under -n, where a NUL ends no record, the input without its NUL bytes
LastRecord ==
    IF ignoreNullInput THEN WithoutNuls(input) ELSE Records(input)[Len(Records(input))]

\* the engine has ended with the whole input consumed: every byte was read
\* from stdin, none is left in the queue of the code-point source, and the
\* units of the last record are the bytes of the input's last record
ConsumedAll ==
    /\ pc = "done"
    /\ pos = Len(input)
    /\ PendingBytes = <<>>
    /\ RawOf(units) = LastRecord

\* C27: on every input the engine ends, and it ends with the whole input
\* consumed: no lookahead, at end of input or on malformed bytes, keeps it
\* from getting there
C27_Terminates == <>ConsumedAll

\* C27 witness: the engine has ended on 0x01 0xE1: the escape of 0x01 looked
\* ahead at the lone lead byte, whose decoding had read end of input twice,
\* and the escape of the lead byte looked ahead at end of input
C27_Witness ==
    /\ ConsumedAll
    /\ ~UsesAsciiEngine
    /\ input = <<1, 225>>
    /\ out = <<36, 39, 92, 49, 92, 51, 52, 49, 39>>

=============================================================================
